---- MODULE Spec2Model ----
(***************************************************************************)
(* A model of the lemmy-media-scraper core: the catalog store              *)
(* (internal/database), the download pipeline (downloader), the progress   *)
(* tracker (internal/progress) with its WebSocket listeners (internal/web) *)
(* and the scrape loop's pagination policy.                                *)
(*                                                                         *)
(* Strings the code inspects character by character (URLs, file names,     *)
(* paths) are sequences of one-character strings.                          *)
(***************************************************************************)
EXTENDS Integers, Sequences, FiniteSets, TLC

\* ------------------------------------------------------------------ bounds

\* Post ids the feed can present: 1..MaxPost.
MaxPost == 2
\* Distinct response bodies of acceptable size a media endpoint can return.
MaxBody == 2

PostIds == 1..MaxPost
BodyIds == 1..MaxBody

\* --------------------------------------------------------- string helpers

DigitChars == <<"0", "1", "2", "3", "4", "5", "6", "7", "8", "9">>
UpperChars == <<"A", "B", "C", "D", "E", "F", "G", "H", "I", "J", "K", "L", "M",
                "N", "O", "P", "Q", "R", "S", "T", "U", "V", "W", "X", "Y", "Z">>
LowerChars == <<"a", "b", "c", "d", "e", "f", "g", "h", "i", "j", "k", "l", "m",
                "n", "o", "p", "q", "r", "s", "t", "u", "v", "w", "x", "y", "z">>

\* fmt.Sprintf("%d", n) for n >= 0
RECURSIVE IntToStr(_)
IntToStr(n) ==
    IF n < 10 THEN <<DigitChars[n + 1]>>
    ELSE IntToStr(n \div 10) \o <<DigitChars[(n % 10) + 1]>>

LowerChar(c) ==
    IF \E i \in 1..26 : UpperChars[i] = c
    THEN LowerChars[CHOOSE i \in 1..26 : UpperChars[i] = c]
    ELSE c

\* strings.ToLower
ToLower(s) == [i \in 1..Len(s) |-> LowerChar(s[i])]

\* strings.HasPrefix / strings.HasSuffix / strings.Contains
HasPrefix(s, p) == Len(p) <= Len(s) /\ SubSeq(s, 1, Len(p)) = p
HasSuffix(s, p) == Len(p) <= Len(s) /\ SubSeq(s, Len(s) - Len(p) + 1, Len(s)) = p
Contains(s, sub) ==
    \E i \in 1..(Len(s) - Len(sub) + 1) : SubSeq(s, i, i + Len(sub) - 1) = sub

\* strings.Index / strings.LastIndex for a one-character needle (1-based, 0 = absent)
IndexOfChar(s, c) ==
    IF \E i \in 1..Len(s) : s[i] = c
    THEN CHOOSE i \in 1..Len(s) : s[i] = c /\ \A j \in 1..(i - 1) : s[j] # c
    ELSE 0
LastIndexOfChar(s, c) ==
    IF \E i \in 1..Len(s) : s[i] = c
    THEN CHOOSE i \in 1..Len(s) : s[i] = c /\ \A j \in (i + 1)..Len(s) : s[j] # c
    ELSE 0

\* strings.Split(s, c)[0]
BeforeChar(s, c) ==
    IF IndexOfChar(s, c) = 0 THEN s ELSE SubSeq(s, 1, IndexOfChar(s, c) - 1)
\* the text after the first c ("" when c is absent)
AfterChar(s, c) ==
    IF IndexOfChar(s, c) = 0 THEN <<>> ELSE SubSeq(s, IndexOfChar(s, c) + 1, Len(s))

\* strings.ReplaceAll(s, c, r) for one-character c and r
ReplaceChar(s, c, r) == [i \in 1..Len(s) |-> IF s[i] = c THEN r ELSE s[i]]

\* path/filepath.Base
RECURSIVE StripTrailingSlashes(_)
StripTrailingSlashes(s) ==
    IF Len(s) > 0 /\ s[Len(s)] = "/"
    THEN StripTrailingSlashes(SubSeq(s, 1, Len(s) - 1))
    ELSE s
Base(path) ==
    IF path = <<>> THEN <<".">>
    ELSE LET p == StripTrailingSlashes(path)
         IN  IF p = <<>> THEN <<"/">>
             ELSE SubSeq(p, LastIndexOfChar(p, "/") + 1, Len(p))

\* path/filepath.Ext: the suffix from the final dot of the final path element
Ext(path) ==
    LET last == SubSeq(path, LastIndexOfChar(path, "/") + 1, Len(path))
        dot  == LastIndexOfChar(last, ".")
    IN  IF dot = 0 THEN <<>> ELSE SubSeq(last, dot, Len(last))

\* path/filepath.Clean on a list of path elements: "." and "" are dropped and
\* ".." removes the element before it.
RECURSIVE CleanElems(_, _)
CleanElems(todo, done) ==
    IF todo = <<>> THEN done
    ELSE LET e == Head(todo)
         IN  IF e = <<>> \/ e = <<".">> THEN CleanElems(Tail(todo), done)
             ELSE IF e = <<".", ".">>
                  THEN CleanElems(Tail(todo),
                                  IF done = <<>> THEN <<>>
                                  ELSE SubSeq(done, 1, Len(done) - 1))
                  ELSE CleanElems(Tail(todo), Append(done, e))

RECURSIVE SplitSlash(_)
SplitSlash(s) ==
    IF IndexOfChar(s, "/") = 0 THEN <<s>>
    ELSE <<BeforeChar(s, "/")>> \o SplitSlash(AfterChar(s, "/"))

RECURSIVE JoinSlash(_)
JoinSlash(elems) ==
    IF elems = <<>> THEN <<>>
    ELSE IF Len(elems) = 1 THEN elems[1]
    ELSE elems[1] \o <<"/">> \o JoinSlash(Tail(elems))

\* path/filepath.Join(a, b, c) for a rooted at "/": join with "/" and Clean
JoinPath(a, b, c) ==
    <<"/">> \o JoinSlash(CleanElems(SplitSlash(a \o <<"/">> \o b \o <<"/">> \o c), <<>>))

\* ------------------------------------------------------------ net/url

IsLetter(c) == \E i \in 1..26 : LowerChars[i] = c \/ UpperChars[i] = c
IsDigit(c) == \E i \in 1..10 : DigitChars[i] = c

\* url.getScheme: the index of the colon ending the scheme, 0 when the text has
\* no scheme, -1 for "missing protocol scheme"
RECURSIVE SchemeScan(_, _)
SchemeScan(s, i) ==
    IF i > Len(s) THEN 0
    ELSE IF IsLetter(s[i]) THEN SchemeScan(s, i + 1)
    ELSE IF IsDigit(s[i]) \/ s[i] \in {"+", "-", "."}
         THEN (IF i = 1 THEN 0 ELSE SchemeScan(s, i + 1))
    ELSE IF s[i] = ":" THEN (IF i = 1 THEN -1 ELSE i)
    ELSE 0

\* url.validOptionalPort: "" or ":" followed by digits only
ValidOptionalPort(p) ==
    p = <<>> \/ (p[1] = ":" /\ \A i \in 2..Len(p) : IsDigit(p[i]))

\* url.parseHost: whether the host text is accepted
ParseHostOk(h) ==
    IF HasPrefix(h, <<"[">>)
    THEN /\ LastIndexOfChar(h, "]") # 0
         /\ ValidOptionalPort(SubSeq(h, LastIndexOfChar(h, "]") + 1, Len(h)))
    ELSE \/ LastIndexOfChar(h, ":") = 0
         \/ ValidOptionalPort(SubSeq(h, LastIndexOfChar(h, ":"), Len(h)))

\* url.Parse: [err, scheme, host]
ParseURL(raw) ==
    LET u     == BeforeChar(raw, "#")
        colon == SchemeScan(u, 1)
        schm  == IF colon > 0 THEN ToLower(SubSeq(u, 1, colon - 1)) ELSE <<>>
        rest0 == IF colon > 0 THEN SubSeq(u, colon + 1, Len(u)) ELSE u
        rest  == BeforeChar(rest0, "?")
        auth0 == BeforeChar(SubSeq(rest, 3, Len(rest)), "/")
        auth  == SubSeq(auth0, LastIndexOfChar(auth0, "@") + 1, Len(auth0))
    IN  IF colon = -1 THEN [err |-> TRUE, scheme |-> <<>>, host |-> <<>>]
        ELSE IF ~HasPrefix(rest, <<"/">>) /\ schm # <<>>
             THEN [err |-> FALSE, scheme |-> schm, host |-> <<>>]   \* opaque
        ELSE IF ~HasPrefix(rest, <<"/">>) /\ Contains(BeforeChar(rest, "/"), <<":">>)
             THEN [err |-> TRUE, scheme |-> <<>>, host |-> <<>>]
        ELSE IF HasPrefix(rest, <<"/", "/">>)
                /\ (schm # <<>> \/ ~HasPrefix(rest, <<"/", "/", "/">>))
             THEN (IF ParseHostOk(auth)
                   THEN [err |-> FALSE, scheme |-> schm, host |-> auth]
                   ELSE [err |-> TRUE, scheme |-> <<>>, host |-> <<>>])
        ELSE [err |-> FALSE, scheme |-> schm, host |-> <<>>]

\* URL.Hostname: the host without a valid port and without IPv6 brackets
Hostname(host) ==
    LET colon == LastIndexOfChar(host, ":")
        h     == IF colon # 0 /\ ValidOptionalPort(SubSeq(host, colon, Len(host)))
                 THEN SubSeq(host, 1, colon - 1) ELSE host
    IN  IF HasPrefix(h, <<"[">>) /\ HasSuffix(h, <<"]">>)
        THEN SubSeq(h, 2, Len(h) - 1) ELSE h

\* ------------------------------------------------- downloader helpers

localAddresses ==
    { <<"l", "o", "c", "a", "l", "h", "o", "s", "t">>,
      <<"1", "2", "7", ".", "0", ".", "0", ".", "1">>,
      <<"0", ".", "0", ".", "0", ".", "0">>,
      <<"[", ":", ":", "1", "]">>,
      <<":", ":", "1">> }

privateRanges ==
    { <<"1", "0", ".">>, <<"1", "9", "2", ".", "1", "6", "8", ".">>,
      <<"1", "6", "9", ".", "2", "5", "4", ".">>,
      <<"f", "c", "0", "0", ":">>, <<"f", "d">> }
    \cup { <<"1", "7", "2", ".", "1", DigitChars[d + 1], ".">> : d \in 6..9 }
    \cup { <<"1", "7", "2", ".", "2", DigitChars[d + 1], ".">> : d \in 0..9 }
    \cup { <<"1", "7", "2", ".", "3", DigitChars[d + 1], ".">> : d \in 0..1 }

\* validateURL: TRUE when the URL is accepted
validateURL(urlStr) ==
    LET parsed   == ParseURL(urlStr)
        hostname == ToLower(Hostname(parsed.host))
    IN  /\ ~parsed.err
        /\ parsed.scheme \in { <<"h", "t", "t", "p">>, <<"h", "t", "t", "p", "s">> }
        /\ parsed.host # <<>>
        /\ hostname \notin localAddresses
        /\ \A r \in privateRanges : ~HasPrefix(hostname, r)

imageSuffixes ==
    { <<".", "j", "p", "g">>, <<".", "j", "p", "e", "g">>, <<".", "p", "n", "g">>,
      <<".", "g", "i", "f">>, <<".", "w", "e", "b", "p">>, <<".", "b", "m", "p">> }
videoSuffixes ==
    { <<".", "m", "p", "4">>, <<".", "w", "e", "b", "m">>, <<".", "m", "o", "v">>,
      <<".", "a", "v", "i">>, <<".", "m", "k", "v">>, <<".", "m", "4", "v">> }

determineMediaType(contentType, url) ==
    LET ct == ToLower(contentType)
        u  == ToLower(url)
    IN  IF Contains(ct, <<"i", "m", "a", "g", "e">>)
           \/ \E sfx \in imageSuffixes : HasSuffix(u, sfx)
        THEN "image"
        ELSE IF Contains(ct, <<"v", "i", "d", "e", "o">>)
                \/ \E sfx \in videoSuffixes : HasSuffix(u, sfx)
        THEN "video"
        ELSE "other"

getFileExtension(contentType, url) ==
    LET urlExt == Ext(url)
        ct     == ToLower(contentType)
    IN  IF urlExt # <<>> THEN BeforeChar(urlExt, "?")
        ELSE IF Contains(ct, <<"j", "p", "e", "g">>) THEN <<".", "j", "p", "g">>
        ELSE IF Contains(ct, <<"p", "n", "g">>) THEN <<".", "p", "n", "g">>
        ELSE IF Contains(ct, <<"g", "i", "f">>) THEN <<".", "g", "i", "f">>
        ELSE IF Contains(ct, <<"w", "e", "b", "p">>) THEN <<".", "w", "e", "b", "p">>
        ELSE IF Contains(ct, <<"m", "p", "4">>) THEN <<".", "m", "p", "4">>
        ELSE IF Contains(ct, <<"w", "e", "b", "m">>) THEN <<".", "w", "e", "b", "m">>
        ELSE <<".", "b", "i", "n">>

invalidPathChars == {"/", "\\", ":", "*", "?", "\"", "<", ">", "|"}

sanitizePath(path) ==
    [i \in 1..Len(path) |-> IF path[i] \in invalidPathChars THEN "_" ELSE path[i]]

ShouldDownload(url, includeImages, includeVideos, includeOther) ==
    LET mediaType == determineMediaType(<<>>, url)
    IN  CASE mediaType = "image" -> includeImages
          [] mediaType = "video" -> includeVideos
          [] mediaType = "other" -> includeOther

\* The file name DownloadMedia builds for a post and a URL
fileNameFor(postID, contentType, mediaURL) ==
    LET originalName == BeforeChar(Base(mediaURL), "?")
        withName     == IntToStr(postID) \o <<"_">> \o originalName
    IN  sanitizePath(IF Contains(withName, <<".">>)
                     THEN withName
                     ELSE IntToStr(postID) \o getFileExtension(contentType, mediaURL))

\* ------------------------------------------------------------- inputs

\* maxFileSize of DownloadMedia: 500 MiB
maxFileSize == 500 * 1024 * 1024

\* Response bodies: body names the bytes, len their number. Body 1 comes at
\* exactly the size ceiling, one byte over it and two bytes over it.
SmallLen == 10
Contents ==
    { [body |-> b, len |-> IF b = 1 THEN maxFileSize ELSE SmallLen] : b \in BodyIds }
    \cup { [body |-> 1, len |-> maxFileSize + 1], [body |-> 1, len |-> maxFileSize + 2] }

ContentTypes == { <<"i", "m", "a", "g", "e", "/", "p", "n", "g">> }

UrlEmpty == <<>>
UrlScript == <<"j", "a", "v", "a", "s", "c", "r", "i", "p", "t", ":", "a", "(", ")">>
UrlLocal == <<"h", "t", "t", "p", ":", "/", "/", "l", "o", "c", "a", "l", "h", "o", "s", "t",
              "/", "x", ".", "j", "p", "g">>
UrlA == <<"h", "t", "t", "p", ":", "/", "/", "a", "/", "x", ".", "j", "p", "g">>
UrlB == <<"h", "t", "t", "p", "s", ":", "/", "/", "b", "/", "v", ".", "m", "p", "4">>
\* A loopback address other than 127.0.0.1 and a link-local IPv6 address
UrlLoopback == <<"h", "t", "t", "p", ":", "/", "/", "1", "2", "7", ".", "0", ".", "0", ".", "2",
                 "/", "x", ".", "j", "p", "g">>
UrlLinkLocal == <<"h", "t", "t", "p", ":", "/", "/", "[", "f", "e", "8", "0", ":", ":", "1", "]",
                  "/", "x", ".", "j", "p", "g">>
UrlNoHost == <<"h", "t", "t", "p", ":", "/", "/", "/", "x", ".", "j", "p", "g">>
Urls == {UrlEmpty, UrlScript, UrlLocal, UrlNoHost, UrlLoopback, UrlLinkLocal, UrlA, UrlB}

\* The URLs behind which a media host answers; a GET of any other accepted URL
\* fails in the network
HostedUrls == {UrlA, UrlB}

\* The one thing that goes wrong in the environment during a call, if any: the
\* GET fails, the status is not 200, the body cannot be read, the directory or
\* the file cannot be created, the insert fails in the database.
Faults == {"none", "net", "status", "read", "mkdir", "write", "db"}

BaseDir == <<"/", "d">>

\* The community a post belongs to (postView.Community.Name, a string of the
\* API response)
CommunityName(postID) ==
    CASE postID % 3 = 1 -> <<"p", "i", "c", "s">>
      [] postID % 3 = 2 -> <<".", ".">>
      [] OTHER -> <<".">>

NoMedia == [id |-> 0]
NoHash == <<>>

\* ------------------------------------------------------------- state

VARIABLES
    media,      \* table scraped_media: a set of rows
    mediaSeq,   \* the AUTOINCREMENT sequence of scraped_media
    posts,      \* table scraped_posts: a set of rows
    marked,     \* the last DB.MarkPostAsScraped call: its post, its count, its error
    saved,      \* what the last direct DB.SaveMedia call returned
    ftsTable,   \* whether the virtual table media_search_fts exists
    ftsTriggers, \* whether the three triggers on scraped_media exist
    ftsIndex,   \* the rowids media_search_fts holds
    ftsAvailable, \* DB.ftsAvailable
    initFault,  \* what failed in the last database.New, "none" if nothing
    searchRes,  \* what the last DB.SearchMedia call returned
    files,      \* the media files on disk: a set of [path, content]
    result,     \* the last DownloadMedia call: [err, media, hash, size, read]
    status,     \* Tracker.status
    clients,    \* Tracker.clients: the registered connections
    broadcast,  \* Tracker.broadcast: the buffered channel of snapshots
    muReaders,  \* the goroutines holding Tracker.mu for reading
    loopPc,     \* the scrape loop inside a mutator: "idle" or "publish"
    calls,      \* mutator calls made so far (the clock of time.Now)
    runPc,      \* Tracker.run: "select", "register_send" or "broadcast"
    runStatus,  \* the snapshot Tracker.run took from the channel
    pending,    \* the clients the broadcast loop has still to write to
    writing,    \* the WriteMessage in progress: [client, snap], or NoWrite
    conn,       \* per connection: handler phase, peer, write state, last snapshot
    session,    \* the scrape session's inputs: [config, feed, catalog, fault]
    run,        \* 1 in a session's first run, 2 when the session was run again
    scrapeState,     \* "FETCHING", "APPLYING_PAGE", "STOPPED" or "TERMINATED"
    page,            \* the page being fetched or applied
    items,           \* the items of the page not yet looked at
    processed,       \* posts processed in this session
    consecutiveSeen, \* already-known posts met in a row
    scrapeLog,       \* the posts looked at so far: [id, known, failed]
    tags,            \* table media_tags: a set of [id, name, auto_generated]
    tagSeq,          \* the AUTOINCREMENT sequence of media_tags
    assignments,     \* table media_tag_assignments: a set of [media_id, tag_id]
    foreignKeys,     \* whether the connection enforces foreign keys
    tagRes,          \* what the last tag operation returned: [err, id]
    configured,      \* the configuration as the file holds it
    cfg,             \* the *Config the program holds, NoConfig for nil
    configRes,       \* [stage, err]: how far start-up got and Validate's error
    linkTarget,      \* where the symlink under the storage directory points
    served,          \* the last /media/ request: [base, path, code, file]
    current,         \* the post being processed: [id, phase, todo, saved, tree]
    postLog,         \* the catalog and feed operations done for that post
    comments,        \* table scraped_comments: a set of [comment_id, post_id]
    racers           \* the tag operations under way, one per goroutine

mediaVars == <<media, mediaSeq, ftsIndex>>
ftsVars == <<ftsTable, ftsTriggers, ftsAvailable, initFault, searchRes>>
postVars == <<posts, marked>>
storeVars == <<mediaVars, postVars, saved, ftsVars>>
dlVars == <<files, result>>
scrapeVars == <<session, run, scrapeState, page, items, processed, consecutiveSeen,
                scrapeLog>>
tagVars == <<tags, tagSeq, assignments, foreignKeys, tagRes>>
configVars == <<configured, cfg, configRes>>
webVars == <<linkTarget, served>>
raceVars == <<racers>>
appVars == <<configVars, webVars, raceVars>>
orchVars == <<current, postLog, comments>>
trackerVars == <<status, clients, broadcast, muReaders, loopPc, calls, runPc,
                 runStatus, pending, writing, conn>>

\* ------------------------------------------------- database.HashContent

\* SHA-256 as a collision-free digest of the bytes: distinct bytes, distinct
\* digests; the digest is not the bytes.
HashContent(content) == <<"sha256", content.body, content.len>>

\* ------------------------------------------------------ catalog store

\* A catalog lookup that never finds the hash
MediaExists_Never(hash) == FALSE

MediaExists(hash) == \E m \in media : m.media_hash = hash

GetMediaByHash(hash) ==
    IF MediaExists(hash) THEN CHOOSE m \in media : m.media_hash = hash ELSE NoMedia

\* A catalog lookup that never finds the post
PostExists_Never(postID) == FALSE

PostExists(postID) == \E p \in posts : p.post_id = postID

\* An insert that enforces media_hash UNIQUE only
SaveMediaErr_HashOnly(row, dbFault) ==
    IF dbFault THEN "db-error"
    ELSE IF \E m \in media : m.media_hash = row.media_hash THEN "duplicate-hash"
    ELSE "none"

\* The constraint an INSERT INTO scraped_media breaks, if any:
\* media_hash UNIQUE and UNIQUE(post_id, media_url)
SaveMediaErr(row, dbFault) ==
    IF dbFault THEN "db-error"
    ELSE IF \E m \in media : m.media_hash = row.media_hash THEN "duplicate-hash"
    ELSE IF \E m \in media : m.post_id = row.post_id /\ m.media_url = row.media_url
         THEN "duplicate-post-url"
    ELSE "none"

\* The row as inserted: id INTEGER PRIMARY KEY AUTOINCREMENT
InsertedRow(row) == [row EXCEPT !.id = mediaSeq + 1]

\* A successful INSERT INTO scraped_media; the trigger media_search_insert,
\* when it exists, adds the row to the full-text index.
InsertMedia(row) ==
    /\ media' = media \cup {InsertedRow(row)}
    /\ mediaSeq' = mediaSeq + 1
    /\ ftsIndex' = IF ftsTriggers THEN ftsIndex \cup {mediaSeq + 1} ELSE ftsIndex

\* A plain INSERT, refused by the primary key when the post is recorded
MarkedPosts_InsertOnly(postID, mediaCount) ==
    IF \E p \in posts : p.post_id = postID THEN posts
    ELSE posts \cup { [post_id |-> postID, had_media |-> mediaCount > 0,
                       media_count |-> mediaCount] }

\* INSERT OR REPLACE INTO scraped_posts (post_id INTEGER PRIMARY KEY)
MarkedPosts(postID, mediaCount) ==
    { p \in posts : p.post_id # postID }
    \cup { [post_id |-> postID, had_media |-> mediaCount > 0, media_count |-> mediaCount] }

\* --------------------------------------------------------- file system

\* os.WriteFile: create or replace the file at path
WriteFile(fs, path, content) ==
    { f \in fs : f.path # path } \cup { [path |-> path, content |-> content] }

\* os.Remove
RemoveFile(fs, path) == { f \in fs : f.path # path }

\* ------------------------------------------------ Downloader.DownloadMedia

\* io.LimitReader(resp.Body, maxFileSize+1) then io.ReadAll: the bytes read
ReadLen(content) ==
    IF content.len > maxFileSize + 1 THEN maxFileSize + 1 ELSE content.len

\* The record DownloadMedia builds (lines 139-156), before the store gives it an id
NewMediaRow(mediaURL, postID, content, contentType) ==
    [ id             |-> 0,
      post_id        |-> postID,
      community_name |-> CommunityName(postID),
      media_url      |-> mediaURL,
      media_hash     |-> HashContent(content),
      file_name      |-> fileNameFor(postID, contentType, mediaURL),
      file_path      |-> JoinPath(BaseDir, sanitizePath(CommunityName(postID)),
                                  fileNameFor(postID, contentType, mediaURL)),
      file_size      |-> ReadLen(content),
      media_type     |-> determineMediaType(contentType, mediaURL) ]

\* validateURL and the record of every request, evaluated once
ValidUrls == { u \in Urls : validateURL(u) }
RowOf ==
    [ u \in ValidUrls, p \in PostIds, c \in Contents, ct \in ContentTypes |->
        NewMediaRow(u, p, c, ct) ]

\* What a call leaves: the URL it was given, whether it called HTTPClient.Get
\* (line 53), its error, its record, the hash it computed of the
\* body it read (line 87), NoHash when it returned before that, the
\* Content-Length it parsed (size) and the number of bytes it read (read),
\* each -1 when the call did not get that far or the header is absent
Return(url, sent, err, m, hash, size, read) ==
    result' = [url |-> url, sent |-> sent, err |-> err, media |-> m, hash |-> hash,
               size |-> size, read |-> read]

\* An off-by-one size guard
TooLarge_Inclusive(n) == n >= maxFileSize

\* size > maxFileSize (line 66) and int64(len(content)) > maxFileSize (line 82)
TooLarge(n) == n > maxFileSize

\* One call of DownloadMedia(mediaURL, postView). The response is the body
\* (content), whether it carries a Content-Length header (hasLen) and its
\* Content-Type; fault is what the environment lets fail during the call.
DownloadMedia(mediaURL, postID, content, hasLen, contentType, fault) ==
    LET size == IF hasLen THEN content.len ELSE -1 IN
    IF mediaURL = <<>> THEN
        Return(mediaURL, FALSE, "empty-url", NoMedia, NoHash, -1, -1) /\ UNCHANGED <<files, storeVars, trackerVars, scrapeVars, tagVars, appVars>>
    ELSE IF mediaURL \notin ValidUrls THEN
        Return(mediaURL, FALSE, "invalid-url", NoMedia, NoHash, -1, -1) /\ UNCHANGED <<files, storeVars, trackerVars, scrapeVars, tagVars, appVars>>
    ELSE IF fault \in {"net", "status"} THEN
        Return(mediaURL, TRUE, "download-failed", NoMedia, NoHash, -1, -1) /\ UNCHANGED <<files, storeVars, trackerVars, scrapeVars, tagVars, appVars>>
    ELSE IF TooLarge(size) THEN
        Return(mediaURL, TRUE, "oversize", NoMedia, NoHash, size, -1) /\ UNCHANGED <<files, storeVars, trackerVars, scrapeVars, tagVars, appVars>>
    ELSE IF fault = "read" THEN
        Return(mediaURL, TRUE, "read-failed", NoMedia, NoHash, size, -1) /\ UNCHANGED <<files, storeVars, trackerVars, scrapeVars, tagVars, appVars>>
    ELSE IF TooLarge(ReadLen(content)) THEN
        Return(mediaURL, TRUE, "oversize", NoMedia, NoHash, size, ReadLen(content)) /\ UNCHANGED <<files, storeVars, trackerVars, scrapeVars, tagVars, appVars>>
    ELSE IF MediaExists(HashContent(content)) THEN
        Return(mediaURL, TRUE, "none", GetMediaByHash(HashContent(content)), HashContent(content), size, ReadLen(content))
        /\ UNCHANGED <<files, storeVars, trackerVars, scrapeVars, tagVars, appVars>>
    ELSE IF fault = "mkdir" THEN
        Return(mediaURL, TRUE, "mkdir-failed", NoMedia, HashContent(content), size, ReadLen(content)) /\ UNCHANGED <<files, storeVars, trackerVars, scrapeVars, tagVars, appVars>>
    ELSE IF fault = "write" THEN
        Return(mediaURL, TRUE, "write-failed", NoMedia, HashContent(content), size, ReadLen(content)) /\ UNCHANGED <<files, storeVars, trackerVars, scrapeVars, tagVars, appVars>>
    ELSE LET row == RowOf[mediaURL, postID, content, contentType] IN
        IF SaveMediaErr(row, fault = "db") # "none" THEN
            \* the file is written (line 134), the insert fails, the file is removed
            /\ files' = RemoveFile(WriteFile(files, row.file_path, content), row.file_path)
            /\ Return(mediaURL, TRUE, "save-failed", NoMedia, HashContent(content), size, ReadLen(content))
            /\ UNCHANGED <<storeVars, trackerVars, scrapeVars, tagVars, appVars>>
        ELSE
            /\ files' = WriteFile(files, row.file_path, content)
            /\ InsertMedia(row)
            /\ Return(mediaURL, TRUE, "none", InsertedRow(row), HashContent(content), size, ReadLen(content))
            /\ UNCHANGED <<postVars, saved, ftsVars, trackerVars, scrapeVars, tagVars, appVars>>

\* ------------------------------------------------------- store operations

\* Mark counts a caller may pass
MaxCount == 1

\* No call of MarkPostAsScraped yet
NoMark == [post_id |-> 0, media_count |-> 0, err |-> "none"]

\* DB.MarkPostAsScraped(postView, mediaCount)
MarkPostAsScraped(postID, mediaCount) ==
    /\ posts' = MarkedPosts(postID, mediaCount)
    /\ marked' = [post_id |-> postID, media_count |-> mediaCount, err |-> "none"]
    /\ UNCHANGED <<mediaVars, saved, ftsVars, dlVars, trackerVars, scrapeVars, tagVars, appVars>>

\* DB.SaveMedia(media) called on the store directly
SaveMedia(row, dbFault) ==
    /\ IF SaveMediaErr(row, dbFault) # "none"
       THEN /\ saved' = [err |-> SaveMediaErr(row, dbFault), id |-> 0, row |-> row]
            /\ UNCHANGED mediaVars
       ELSE /\ InsertMedia(row)
            /\ saved' = [err |-> "none", id |-> mediaSeq + 1, row |-> row]
    /\ UNCHANGED <<postVars, ftsVars, dlVars, trackerVars, scrapeVars, tagVars, appVars, orchVars>>

\* ------------------------------------------------- full-text search

\* What can fail in initSearchIndex: the engine has no FTS5 (CREATE VIRTUAL
\* TABLE fails), the triggers cannot be created, the COUNT(*) fails, the
\* backfill insert fails.
InitFaults == {"none", "no_fts5", "triggers", "count", "backfill"}

\* An initialization that skips the backfill of the rows the index lacks
initSearchIndex_NoBackfill(fault, tbl, trg, idx, ids) ==
    IF fault = "no_fts5" THEN
        [table |-> tbl, triggers |-> trg, index |-> idx, flag |-> FALSE, err |-> FALSE]
    ELSE IF fault = "triggers" THEN
        [table |-> TRUE, triggers |-> trg, index |-> idx, flag |-> FALSE, err |-> FALSE]
    ELSE IF fault = "count" THEN
        [table |-> TRUE, triggers |-> TRUE, index |-> idx, flag |-> FALSE, err |-> TRUE]
    ELSE IF ids # {} /\ fault = "backfill" THEN
        [table |-> TRUE, triggers |-> TRUE, index |-> idx, flag |-> FALSE, err |-> FALSE]
    ELSE
        [table |-> TRUE, triggers |-> TRUE, index |-> idx,
         flag |-> TRUE, err |-> FALSE]

\* DB.initSearchIndex on a database whose virtual table exists or not (tbl),
\* whose triggers exist or not (trg), whose index holds idx and whose media
\* table holds the rows with ids: what it leaves, the flag it sets and whether
\* it returns an error
initSearchIndex(fault, tbl, trg, idx, ids) ==
    IF fault = "no_fts5" THEN          \* lines 612-618: flag false, return nil
        [table |-> tbl, triggers |-> trg, index |-> idx, flag |-> FALSE, err |-> FALSE]
    ELSE IF fault = "triggers" THEN    \* lines 641-645: flag false, return nil
        [table |-> TRUE, triggers |-> trg, index |-> idx, flag |-> FALSE, err |-> FALSE]
    ELSE IF fault = "count" THEN       \* lines 650-652: return the error
        [table |-> TRUE, triggers |-> TRUE, index |-> idx, flag |-> FALSE, err |-> TRUE]
    ELSE IF ids # {} /\ fault = "backfill" THEN   \* lines 662-666
        [table |-> TRUE, triggers |-> TRUE, index |-> idx, flag |-> FALSE, err |-> FALSE]
    ELSE                               \* lines 656-674
        [table |-> TRUE, triggers |-> TRUE, index |-> idx \cup ids,
         flag |-> TRUE, err |-> FALSE]

\* DB.initSchema, lines 171-181: the flag it leaves, given what
\* initSearchIndex returned: false on an error, true otherwise
initSchemaFlag(r) == IF r.err THEN FALSE ELSE TRUE

NoSearch == [err |-> "not-called", rows |-> {}]

\* database.New(dbPath) on the database file as it is: the schema is applied
\* with IF NOT EXISTS, then the search index is initialized. A new DB value
\* starts with ftsAvailable = false (line 32).
New(fault) ==
    LET r == initSearchIndex(fault, ftsTable, ftsTriggers, ftsIndex,
                             { m.id : m \in media }) IN
    /\ ftsTable' = r.table
    /\ ftsTriggers' = r.triggers
    /\ ftsIndex' = r.index
    /\ ftsAvailable' = initSchemaFlag(r)
    /\ initFault' = fault
    /\ searchRes' = NoSearch
    /\ UNCHANGED <<media, mediaSeq, postVars, saved, dlVars, trackerVars, scrapeVars, tagVars, appVars, orchVars>>

\* Search terms: the empty query and one token
QueryPics == <<"p", "i", "c", "s">>
Queries == { <<>>, QueryPics }

\* MATCH over the indexed columns, as far as the rows carry them: a one-token
\* query matches the rows whose community name is that token
Matches(m, query) == m.community_name = query

\* DB.SearchMedia(query, limit, offset)
SearchMedia(query) ==
    /\ searchRes' =
         IF query = <<>> THEN [err |-> "none", rows |-> {}]
         ELSE IF ~ftsAvailable THEN [err |-> "search-unavailable", rows |-> {}]
         ELSE IF ~ftsTable THEN [err |-> "count-failed", rows |-> {}]
         ELSE [err |-> "none",
               rows |-> { m \in media : m.id \in ftsIndex /\ Matches(m, query) }]
    /\ UNCHANGED <<mediaVars, postVars, saved, ftsTable, ftsTriggers, ftsAvailable,
                   initFault, dlVars, trackerVars, scrapeVars, tagVars, appVars, orchVars>>

\* ----------------------------------------------------- progress.Tracker

\* Connections a browser may open
MaxClient == 1
\* Capacity of Tracker.broadcast as modelled (NewTracker makes it 100)
broadcastCap == 2
\* Mutator calls the scrape loop makes in a behaviour
MaxCalls == 3

ClientIds == 1..MaxClient

\* Status{IsRunning: false}
ZeroStatus ==
    [ is_running |-> FALSE, current_community |-> "", posts_processed |-> 0,
      media_downloaded |-> 0, errors_count |-> 0, current_operation |-> <<>>,
      progress |-> 0, started_at |-> 0, eta |-> "" ]

NoStatus == [is_running |-> "none"]
NoWrite == [client |-> 0]

\* sync.RWMutex: Lock waits while a reader holds the mutex
MayLock == muReaders = {}

\* The body of each mutator between t.mu.Lock() and t.mu.Unlock()
StartStatus(now) == [ZeroStatus EXCEPT !.is_running = TRUE, !.started_at = now]
StopStatus(st) ==
    [st EXCEPT !.is_running = FALSE, !.current_operation = <<"Completed">>,
               !.progress = 100]
UpdateCommunityStatus(st, community) ==
    [st EXCEPT !.current_community = community,
               !.current_operation = <<"Scraping ", community>>]
IncrementPostsStatus(st) == [st EXCEPT !.posts_processed = @ + 1]
IncrementMediaStatus(st) == [st EXCEPT !.media_downloaded = @ + 1]
\* An error counter that is never advanced
IncrementErrorsStatus_Noop(st) == st
IncrementErrorsStatus(st) == [st EXCEPT !.errors_count = @ + 1]
UpdateOperationStatus(st, operation) == [st EXCEPT !.current_operation = operation]
UpdateProgressStatus(st, progress) == [st EXCEPT !.progress = progress]

\* A mutator up to t.mu.Unlock(): it takes the write lock, sets the state and
\* goes on to broadcastStatus
Mutate(newStatus) ==
    /\ loopPc = "idle"
    /\ calls < MaxCalls
    /\ MayLock
    /\ status' = newStatus
    /\ loopPc' = "publish"
    /\ calls' = calls + 1
    /\ UNCHANGED <<clients, broadcast, muReaders, runPc, runStatus, pending, writing,
                   conn, storeVars, dlVars, scrapeVars, tagVars, appVars, orchVars>>

Start == Mutate(StartStatus(calls + 1))
Stop == Mutate(StopStatus(status))
UpdateCommunity == Mutate(UpdateCommunityStatus(status, "pics"))
IncrementPosts == Mutate(IncrementPostsStatus(status))
IncrementMedia == Mutate(IncrementMediaStatus(status))
IncrementErrors == Mutate(IncrementErrorsStatus(status))
UpdateOperation == Mutate(UpdateOperationStatus(status, <<"Downloading">>))
UpdateProgress == Mutate(UpdateProgressStatus(status, 50))

\* Tracker.broadcastStatus: copy the state under the read lock, then a
\* non-blocking send
\* A send that makes room in a full channel by dropping the oldest snapshot
Enqueue_DropOldest(q, snap) ==
    IF Len(q) < broadcastCap THEN Append(q, snap) ELSE Append(Tail(q), snap)
Enqueue(q, snap) == IF Len(q) < broadcastCap THEN Append(q, snap) ELSE q

broadcastStatus ==
    /\ loopPc = "publish"
    /\ broadcast' = Enqueue(broadcast, status)
    /\ loopPc' = "idle"
    /\ UNCHANGED <<status, clients, muReaders, calls, runPc, runStatus, pending,
                   writing, conn, storeVars, dlVars, scrapeVars, tagVars, appVars, orchVars>>

\* Server.handleWebSocket: the upgrade; the handler then blocks in
\* RegisterClient until Tracker.run takes the connection
Connect(c) ==
    /\ conn[c].phase = "none"
    /\ conn' = [conn EXCEPT ![c].phase = "upgraded"]
    /\ UNCHANGED <<status, clients, broadcast, muReaders, loopPc, calls, runPc,
                   runStatus, pending, writing, storeVars, dlVars, scrapeVars, tagVars, appVars, orchVars>>

\* Tracker.run, case client := <-t.register: add the client under the write
\* lock; the handler returns and its goroutine starts reading
RunRegister(c) ==
    /\ runPc = "select"
    /\ conn[c].phase = "upgraded"
    /\ MayLock
    /\ clients' = clients \cup {c}
    /\ conn' = [conn EXCEPT ![c].phase = "open"]
    /\ runPc' = "register_send"
    /\ pending' = {c}
    /\ UNCHANGED <<status, broadcast, muReaders, loopPc, calls, runStatus, writing,
                   storeVars, dlVars, scrapeVars, tagVars, appVars, orchVars>>

\* ... then t.sendToClient(client, t.GetStatus()): the write starts with the
\* state as it is now, no lock held
RunRegisterSend(c) ==
    /\ runPc = "register_send"
    /\ c \in pending
    /\ writing = NoWrite
    /\ writing' = [client |-> c, snap |-> status]
    /\ pending' = {}
    /\ UNCHANGED <<status, clients, broadcast, muReaders, loopPc, calls, runPc,
                   runStatus, conn, storeVars, dlVars, scrapeVars, tagVars, appVars, orchVars>>

\* Tracker.run, case client := <-t.unregister (sent by the connection's
\* reader goroutine after a read error)
RunUnregister(c) ==
    /\ runPc = "select"
    /\ conn[c].phase = "readerr"
    /\ MayLock
    /\ clients' = clients \ {c}
    /\ conn' = [conn EXCEPT ![c].phase = "closed"]
    /\ UNCHANGED <<status, broadcast, muReaders, loopPc, calls, runPc, runStatus,
                   pending, writing, storeVars, dlVars, scrapeVars, tagVars, appVars, orchVars>>

\* Tracker.run, case status := <-t.broadcast: take the read lock and start the
\* loop over the clients
RunBroadcast ==
    /\ runPc = "select"
    /\ broadcast # <<>>
    /\ runStatus' = Head(broadcast)
    /\ broadcast' = Tail(broadcast)
    /\ muReaders' = muReaders \cup {"run"}
    /\ pending' = clients
    /\ runPc' = "broadcast"
    /\ UNCHANGED <<status, clients, loopPc, calls, writing, conn, storeVars, dlVars, scrapeVars, tagVars, appVars, orchVars>>

\* ... t.sendToClient(client, status) for the next client of the loop
RunBroadcastSend(c) ==
    /\ runPc = "broadcast"
    /\ c \in pending
    /\ writing = NoWrite
    /\ writing' = [client |-> c, snap |-> runStatus]
    /\ pending' = pending \ {c}
    /\ UNCHANGED <<status, clients, broadcast, muReaders, loopPc, calls, runPc,
                   runStatus, conn, storeVars, dlVars, scrapeVars, tagVars, appVars, orchVars>>

\* ... the loop is over: t.mu.RUnlock()
RunBroadcastDone ==
    /\ runPc = "broadcast"
    /\ pending = {}
    /\ writing = NoWrite
    /\ muReaders' = muReaders \ {"run"}
    /\ runStatus' = NoStatus
    /\ runPc' = "select"
    /\ UNCHANGED <<status, clients, broadcast, loopPc, calls, pending, writing, conn,
                   storeVars, dlVars, scrapeVars, tagVars, appVars, orchVars>>

\* Tracker.sendToClient returning: WriteMessage succeeded, or failed (the
\* 10 s deadline passed on a peer that does not read, the peer is gone, or an
\* earlier write failed on this connection); a failure is only logged.
WriteSucceeds(c) == conn[c].peer = "alive" /\ ~conn[c].wfailed /\ conn[c].phase # "closed"

sendToClientReturns ==
    /\ writing # NoWrite
    /\ conn' = IF WriteSucceeds(writing.client)
               THEN [conn EXCEPT ![writing.client].last = writing.snap,
                                 ![writing.client].final =
                                     IF writing.snap.is_running THEN @ ELSE writing.snap]
               ELSE [conn EXCEPT ![writing.client].wfailed = TRUE]
    /\ writing' = NoWrite
    /\ runPc' = IF runPc = "register_send" THEN "select" ELSE runPc
    /\ UNCHANGED <<status, clients, broadcast, muReaders, loopPc, calls, runStatus,
                   pending, storeVars, dlVars, scrapeVars, tagVars, appVars, orchVars>>

\* Tracker.run, case <-ticker.C, and Tracker.updateETA: the ETA text depends
\* on the time elapsed
EtaTexts == {"< 1 minute", "minutes", "hours"}

RunTick ==
    /\ runPc = "select"
    /\ MayLock
    /\ \E eta \in EtaTexts :
         status' = IF status.is_running /\ status.posts_processed # 0
                   THEN [status EXCEPT !.eta = eta]
                   ELSE status
    /\ UNCHANGED <<clients, broadcast, muReaders, loopPc, calls, runPc, runStatus,
                   pending, writing, conn, storeVars, dlVars, scrapeVars, tagVars, appVars, orchVars>>

\* The peer: it stops reading its socket (browser suspended), or goes away
PeerStalls(c) ==
    /\ conn[c].phase \in {"upgraded", "open"}
    /\ conn[c].peer = "alive"
    /\ conn' = [conn EXCEPT ![c].peer = "stalled"]
    /\ UNCHANGED <<status, clients, broadcast, muReaders, loopPc, calls, runPc,
                   runStatus, pending, writing, storeVars, dlVars, scrapeVars, tagVars, appVars, orchVars>>

PeerCloses(c) ==
    /\ conn[c].phase \in {"upgraded", "open"}
    /\ conn[c].peer # "gone"
    /\ conn' = [conn EXCEPT ![c].peer = "gone"]
    /\ UNCHANGED <<status, clients, broadcast, muReaders, loopPc, calls, runPc,
                   runStatus, pending, writing, storeVars, dlVars, scrapeVars, tagVars, appVars, orchVars>>

\* The reader goroutine of handleWebSocket: conn.ReadMessage() returns an
\* error once the peer is gone; the goroutine leaves its loop and the deferred
\* UnregisterClient waits for Tracker.run
ReadFails(c) ==
    /\ conn[c].phase = "open"
    /\ conn[c].peer = "gone"
    /\ conn' = [conn EXCEPT ![c].phase = "readerr"]
    /\ UNCHANGED <<status, clients, broadcast, muReaders, loopPc, calls, runPc,
                   runStatus, pending, writing, storeVars, dlVars, scrapeVars, tagVars, appVars, orchVars>>

\* NewTracker
InitTracker ==
    /\ status = ZeroStatus
    /\ clients = {}
    /\ broadcast = <<>>
    /\ muReaders = {}
    /\ loopPc = "idle"
    /\ calls = 0
    /\ runPc = "select"
    /\ runStatus = NoStatus
    /\ pending = {}
    /\ writing = NoWrite
    /\ conn = [c \in ClientIds |->
                 [phase |-> "none", peer |-> "alive", wfailed |-> FALSE, last |-> NoStatus,
                  final |-> NoStatus]]

\* ------------------------------------------------------------ tags.Manager

\* Tags a behaviour may create (caps the AUTOINCREMENT sequence)
MaxTagSeq == 2
\* Labels one classification returns
MaxLabels == 2

\* strings.TrimSpace
RECURSIVE TrimSpace(_)
TrimSpace(s) ==
    IF s # <<>> /\ s[1] = " " THEN TrimSpace(Tail(s))
    ELSE IF s # <<>> /\ s[Len(s)] = " " THEN TrimSpace(SubSeq(s, 1, Len(s) - 1))
    ELSE s

\* normalizeTagName: lower case, trim, " " and "_" become "-", then only
\* a-z, 0-9 and "-" are kept
normalizeTagName(name) ==
    LET replaced == ReplaceChar(ReplaceChar(TrimSpace(ToLower(name)), " ", "-"), "_", "-")
    IN  SelectSeq(replaced,
                  LAMBDA c : (\E i \in 1..26 : LowerChars[i] = c) \/ IsDigit(c) \/ c = "-")

\* DB.GetTagByName: the row with that name, NoTag when there is none
NoTag == [id |-> 0]
GetTagByName(name) ==
    IF \E t \in tags : t.name = name THEN CHOOSE t \in tags : t.name = name ELSE NoTag

\* DB.CreateTag: INSERT INTO media_tags; name is UNIQUE
CreateTagErr(tagTable, name) ==
    IF \E t \in tagTable : t.name = name THEN "unique-name" ELSE "none"
CreatedTag(seq, name, autoGenerated) ==
    [id |-> seq + 1, name |-> name, auto_generated |-> autoGenerated]

\* DB.AssignTagToMedia: INSERT OR IGNORE INTO media_tag_assignments; with
\* foreign keys enforced both ids must exist
AssignErr(mediaID, tagID, tagTable) ==
    IF foreignKeys /\ ~((\E m \in media : m.id = mediaID) /\ (\E t \in tagTable : t.id = tagID))
    THEN "foreign-key" ELSE "none"
Assigned(asg, mediaID, tagID, tagTable) ==
    IF AssignErr(mediaID, tagID, tagTable) = "none"
    THEN asg \cup {[media_id |-> mediaID, tag_id |-> tagID]}
    ELSE asg

TagsUnchanged == UNCHANGED <<storeVars, dlVars, trackerVars, scrapeVars, foreignKeys, appVars, orchVars>>

\* Manager.CreateUserTag(name, color): normalize, return the existing tag's
\* id, or create the tag
CreateUserTag(name) ==
    LET n == normalizeTagName(name)
        existing == GetTagByName(n)
    IN  /\ existing = NoTag => tagSeq < MaxTagSeq
        /\ IF existing # NoTag
           THEN /\ tagRes' = [err |-> "none", id |-> existing.id]
                /\ UNCHANGED <<tags, tagSeq>>
           ELSE /\ tags' = tags \cup {CreatedTag(tagSeq, n, FALSE)}
                /\ tagSeq' = tagSeq + 1
                /\ tagRes' = [err |-> "none", id |-> tagSeq + 1]
        /\ UNCHANGED assignments
        /\ TagsUnchanged

\* uniqueStrings
RECURSIVE uniqueStrings(_)
uniqueStrings(slice) ==
    IF slice = <<>> THEN <<>>
    ELSE LET front == uniqueStrings(SubSeq(slice, 1, Len(slice) - 1))
             val == slice[Len(slice)]
         IN  IF \E i \in 1..Len(front) : front[i] = val THEN front ELSE Append(front, val)

\* The loop of Manager.AutoTagMedia over the labels: a label shorter than 2
\* is skipped, the others are normalized, found or created, and assigned
RECURSIVE AutoTagLoop(_, _, _)
AutoTagLoop(allTags, mediaID, st) ==
    IF allTags = <<>> THEN st
    ELSE LET tagName == Head(allTags) IN
         IF Len(tagName) < 2 THEN AutoTagLoop(Tail(allTags), mediaID, st)
         ELSE LET n == normalizeTagName(tagName)
                  found == \E t \in st.tags : t.name = n
                  tagID == IF found THEN (CHOOSE t \in st.tags : t.name = n).id
                           ELSE st.seq + 1
                  tagTable == IF found THEN st.tags
                              ELSE st.tags \cup {CreatedTag(st.seq, n, TRUE)}
              IN  AutoTagLoop(Tail(allTags), mediaID,
                              [tags |-> tagTable,
                               seq |-> IF found THEN st.seq ELSE st.seq + 1,
                               asg |-> Assigned(st.asg, mediaID, tagID, tagTable)])

\* Manager.AutoTagMedia(mediaID, imagePath) when auto-tagging is on; labels is
\* what the classifier returns, classifyFails that its call failed
AutoTagMedia(mediaID, labels, classifyFails) ==
    LET st == AutoTagLoop(uniqueStrings(labels), mediaID,
                          [tags |-> tags, seq |-> tagSeq, asg |-> assignments])
    IN  /\ tagSeq + Len(labels) <= MaxTagSeq
        /\ IF classifyFails
           THEN /\ tagRes' = [err |-> "classify-failed", id |-> 0]
                /\ UNCHANGED <<tags, tagSeq, assignments>>
           ELSE /\ tags' = st.tags
                /\ tagSeq' = st.seq
                /\ assignments' = st.asg
                /\ tagRes' = [err |-> "none", id |-> 0]
        /\ TagsUnchanged

\* Manager.AssignTag(mediaID, tagID)
AssignTag(mediaID, tagID) ==
    /\ assignments' = Assigned(assignments, mediaID, tagID, tags)
    /\ tagRes' = [err |-> AssignErr(mediaID, tagID, tags), id |-> 0]
    /\ UNCHANGED <<tags, tagSeq>>
    /\ TagsUnchanged

\* Manager.RemoveTag(mediaID, tagID)
RemoveTag(mediaID, tagID) ==
    /\ assignments' = assignments \ {[media_id |-> mediaID, tag_id |-> tagID]}
    /\ tagRes' = [err |-> "none", id |-> 0]
    /\ UNCHANGED <<tags, tagSeq>>
    /\ TagsUnchanged

\* Manager.DeleteTag(tagID): DELETE FROM media_tags; ON DELETE CASCADE acts
\* only when foreign keys are enforced
DeleteTag(tagID) ==
    /\ tags' = { t \in tags : t.id # tagID }
    /\ assignments' = IF foreignKeys THEN { a \in assignments : a.tag_id # tagID }
                      ELSE assignments
    /\ tagRes' = [err |-> "none", id |-> 0]
    /\ UNCHANGED tagSeq
    /\ TagsUnchanged

\* The names and labels tried
TagInputs ==
    { <<"x">>, <<"a", "!">>, <<"A", "b">>, <<" ", "a", "_", "b">> }
LabelLists == UNION { [1..n -> TagInputs] : n \in 0..MaxLabels }

\* No tags yet; sqlite3 leaves foreign keys off unless the DSN or the build
\* turns them on
InitTags(fk) ==
    /\ tags = {}
    /\ tagSeq = 0
    /\ assignments = {}
    /\ foreignKeys = fk
    /\ tagRes = [err |-> "none", id |-> 0]

\* --------------------------------------------------- scrape orchestrator
\* The orchestrator (internal/scraper) is described by the specification's
\* pagination state machine; its configuration is config.ScraperConfig and
\* its catalog calls are DB.PostExists and DB.MarkPostAsScraped.

\* The feed API's ceiling on the items of one page
pageLimit == 50

\* Post ids, length of the short feeds, and thresholds tried
MaxFeedPost == 2
MaxFeedLen == 3
MaxThreshold == 3

FeedPostIds == 1..MaxFeedPost

\* ScraperConfig: the fields the pagination state machine reads
ScraperConfigs ==
    [ max_posts_per_run : {1, 50}, stop_at_seen_posts : BOOLEAN,
      skip_seen_posts : BOOLEAN, enable_pagination : BOOLEAN,
      seen_posts_threshold : 1..MaxThreshold ]

\* A feed is the sequence of post ids the instance lists, newest first
ShortFeeds == UNION { [1..n -> FeedPostIds] : n \in 0..MaxFeedLen }
\* The stop-at-seen scenario: catalog {1..10}, feed 11, 1, 2, 3, 4, 5, 12
ScenarioFeed == <<11, 1, 2, 3, 4, 5, 12>>
ScenarioCatalog == 1..10
\* A feed of more than one page
LongFeed == [i \in 1..(pageLimit + 1) |-> 100 + i]
\* A feed with two posts on its second page
LongerFeed == [i \in 1..(pageLimit + 2) |-> 100 + i]

\* What goes wrong while the posts that carry media are handled, if anything:
\* the media host does not answer, or the catalog refuses the write
PostFaults == {"none", "media", "catalog"}

Sessions ==
    [ config : ScraperConfigs, feed : ShortFeeds, catalog : SUBSET FeedPostIds,
      fault : PostFaults ]
    \cup [ config : ScraperConfigs, feed : {ScenarioFeed}, catalog : {ScenarioCatalog},
           fault : PostFaults ]
    \cup [ config : ScraperConfigs, feed : {LongFeed}, catalog : {{}, {101, 102, 103}},
           fault : PostFaults ]

\* Sessions run twice from an empty catalog with stop-at-seen set, nothing
\* failing; the thresholds include one above a page
RerunConfigs ==
    [ max_posts_per_run : {1, 50}, stop_at_seen_posts : {TRUE},
      skip_seen_posts : BOOLEAN, enable_pagination : BOOLEAN,
      seen_posts_threshold : (1..MaxThreshold) \cup {pageLimit + 1} ]
RerunSessions ==
    [ config : RerunConfigs, feed : ShortFeeds \cup {LongFeed, LongerFeed},
      catalog : {{}}, fault : {"none"} ]

\* get-page(page): up to pageLimit items
Min(a, b) == IF a < b THEN a ELSE b
GetPage(feed, n) == SubSeq(feed, (n - 1) * pageLimit + 1, Min(n * pageLimit, Len(feed)))

\* "If pagination is disabled, cap max-posts at 50"
MaxPosts(config) ==
    IF ~config.enable_pagination
    THEN Min(config.max_posts_per_run, pageLimit)
    ELSE config.max_posts_per_run

\* The media a post of the feed carries
MediaCountOf(postID) == postID % 2

\* The catalog a session starts from: one scraped_posts row per known post
CatalogRows(ids) ==
    { [post_id |-> id, had_media |-> MediaCountOf(id) > 0,
       media_count |-> MediaCountOf(id)] : id \in ids }

\* "Initial: FETCHING at page 1, with counters (processed, consecutive-seen) = 0"
InitScrape(s) ==
    /\ session = s
    /\ run = 1
    /\ scrapeState = "FETCHING"
    /\ page = 1
    /\ items = <<>>
    /\ processed = 0
    /\ consecutiveSeen = 0
    /\ scrapeLog = <<>>

\* "On page fetch: request up to 50 items"
FetchPage ==
    /\ scrapeState = "FETCHING"
    /\ items' = GetPage(session.feed, page)
    /\ scrapeState' = "APPLYING_PAGE"
    /\ UNCHANGED <<session, run, page, processed, consecutiveSeen, scrapeLog,
                   storeVars, dlVars, trackerVars, tagVars, appVars, orchVars>>

\* Whether the handling of a post meets the session's fault
FailsFor(s, postID) == s.fault # "none" /\ MediaCountOf(postID) > 0

\* Tracker.IncrementErrors called by the scrape loop while Tracker.run serves
\* no listener: the counter under the lock, then broadcastStatus
CountError ==
    /\ status' = IncrementErrorsStatus(status)
    /\ broadcast' = Enqueue(broadcast, status')

\* Per-post processing, ending with mark-post-scraped: "a failure in any
\* single post, media, or comment batch is logged and counted but must not
\* abort the session". A media that fails is skipped and the post is marked
\* with the media that were saved; a catalog write that fails leaves no row.
ProcessPost(postID) ==
    /\ processed' = processed + 1
    /\ IF FailsFor(session, postID)
       THEN /\ CountError
            /\ IF session.fault = "media"
               THEN /\ posts' = MarkedPosts(postID, 0)
                    /\ marked' = [post_id |-> postID, media_count |-> 0, err |-> "none"]
               ELSE /\ posts' = posts
                    /\ marked' = [post_id |-> postID, media_count |-> MediaCountOf(postID),
                                  err |-> "failed"]
       ELSE /\ posts' = MarkedPosts(postID, MediaCountOf(postID))
            /\ marked' = [post_id |-> postID, media_count |-> MediaCountOf(postID),
                          err |-> "none"]
            /\ UNCHANGED <<status, broadcast>>

\* "For each item: if the post is already known, increment consecutive-seen;
\* if stop-at-seen is set and consecutive-seen >= threshold, transition to
\* STOPPED. If skip-seen is set, skip without stopping. Otherwise reset
\* consecutive-seen to zero and process the post." A known post met below
\* the threshold with stop-at-seen set is passed over (the stop-at-seen
\* scenario: only post 11 is processed).
ApplyItem ==
    /\ scrapeState = "APPLYING_PAGE"
    /\ items # <<>>
    /\ LET postID == Head(items)
           known == PostExists(postID)
           config == session.config
           skip == known /\ (config.stop_at_seen_posts \/ config.skip_seen_posts)
       IN  /\ scrapeLog' = Append(scrapeLog,
                    [id |-> postID, known |-> known,
                     failed |-> ~skip /\ FailsFor(session, postID)])
           /\ items' = Tail(items)
           /\ IF known /\ config.stop_at_seen_posts
                 /\ consecutiveSeen + 1 >= config.seen_posts_threshold
              THEN /\ consecutiveSeen' = consecutiveSeen + 1
                   /\ scrapeState' = "STOPPED"
                   /\ UNCHANGED <<postVars, processed, status, broadcast>>
              ELSE IF skip
              THEN /\ consecutiveSeen' = consecutiveSeen + 1
                   /\ UNCHANGED <<scrapeState, postVars, processed, status, broadcast>>
              ELSE /\ consecutiveSeen' = 0
                   /\ ProcessPost(postID)
                   /\ UNCHANGED scrapeState
    /\ UNCHANGED <<session, run, page, mediaVars, saved, ftsVars, dlVars, tagVars, appVars, orchVars,
                   clients, muReaders, loopPc, calls, runPc, runStatus, pending,
                   writing, conn>>

\* "After the page: if pagination disabled OR processed >= max OR fewer than
\* 50 items returned OR state is STOPPED, terminate. Else advance page and
\* re-enter FETCHING."
EndPage ==
    /\ scrapeState = "APPLYING_PAGE"
    /\ items = <<>>
    /\ IF \/ ~session.config.enable_pagination
          \/ processed >= MaxPosts(session.config)
          \/ Len(GetPage(session.feed, page)) < pageLimit
       THEN /\ scrapeState' = "TERMINATED"
            /\ UNCHANGED page
       ELSE /\ scrapeState' = "FETCHING"
            /\ page' = page + 1
    /\ UNCHANGED <<session, run, items, processed, consecutiveSeen, scrapeLog,
                   storeVars, dlVars, trackerVars, tagVars, appVars, orchVars>>

\* The same configuration and feed run again over the catalog the first run
\* left: the machine starts over, "FETCHING at page 1, with counters = 0"
Rerun ==
    /\ run = 1
    /\ scrapeState \in {"TERMINATED", "STOPPED"}
    /\ run' = 2
    /\ session' = [session EXCEPT !.catalog = { r.post_id : r \in posts }]
    /\ scrapeState' = "FETCHING"
    /\ page' = 1
    /\ items' = <<>>
    /\ processed' = 0
    /\ consecutiveSeen' = 0
    /\ scrapeLog' = <<>>
    /\ UNCHANGED <<storeVars, dlVars, trackerVars, tagVars, appVars, orchVars>>

\* No session: the zero ScraperConfig and no feed
ZeroConfig ==
    [ max_posts_per_run |-> 0, stop_at_seen_posts |-> FALSE, skip_seen_posts |-> FALSE,
      enable_pagination |-> FALSE, seen_posts_threshold |-> 0 ]
IdleScrape ==
    InitScrape([config |-> ZeroConfig, feed |-> <<>>, catalog |-> {}, fault |-> "none"])

\* ------------------------------------------------------ config.Config

\* The fields of Config that Validate and the scraper defaults read or write;
\* the web-server, thumbnail and recognition defaults of SetDefaults touch
\* fields no operator here reads.
NoConfig == [ nil |-> TRUE ]

defaultMaxPostsPerRun == 50
defaultSeenPostsThreshold == 5

\* run_mode.mode and run_mode.interval as a file can give them
RunModes ==
    { [mode |-> m, interval |-> i] : m \in {"", "once", "continuous", "hourly"},
                                     i \in {0, 1} }

\* The required strings: each is empty or not
Required ==
    [ instance : {"", "lemmy.ml"}, username : {"", "u"}, password : {"", "p"},
      base_directory : {"", "/d"}, database_path : {"", "/d/db"} ]

\* scraper.sort_type as a file can give it
SortInputs == {"", "hot", "Hot", "HOT", "topday", "TopAll", "UnknownSort"}

\* The scraper section as a file can give it
ScraperInputs ==
    { [max_posts_per_run |-> n, enable_pagination |-> pg, sort_type |-> st,
       seen_posts_threshold |-> 0, include_images |-> FALSE,
       include_videos |-> FALSE, include_other |-> FALSE] :
          n \in {-1, 0, 10, 50, 100}, pg \in BOOLEAN, st \in SortInputs }
    \cup
    { [max_posts_per_run |-> 100, enable_pagination |-> TRUE, sort_type |-> "New",
       seen_posts_threshold |-> t, include_images |-> TRUE,
       include_videos |-> v, include_other |-> FALSE] :
          t \in {0, 3}, v \in BOOLEAN }

\* A file of the given required strings, run mode and scraper section
ConfigOf(r, rm, sc) ==
    [instance |-> r.instance, username |-> r.username, password |-> r.password,
     base_directory |-> r.base_directory, database_path |-> r.database_path,
     mode |-> rm.mode, interval |-> rm.interval,
     max_posts_per_run |-> sc.max_posts_per_run,
     enable_pagination |-> sc.enable_pagination,
     sort_type |-> sc.sort_type,
     seen_posts_threshold |-> sc.seen_posts_threshold,
     include_images |-> sc.include_images,
     include_videos |-> sc.include_videos,
     include_other |-> sc.include_other]

\* Every configuration file of the model: every scraper section in a file
\* with all required strings, every choice of required strings with one
\* scraper section
Configs ==
    { ConfigOf(r, rm, sc) : r \in { q \in Required : \A f \in DOMAIN q : q[f] # "" },
                            rm \in RunModes, sc \in ScraperInputs }
    \cup
    { ConfigOf(r, rm, sc) : r \in Required, rm \in RunModes,
                            sc \in { q \in ScraperInputs : q.seen_posts_threshold = 3
                                                           /\ q.include_videos } }

\* A Validate that accepts a continuous mode without an interval
Validate_NoInterval(c) ==
    IF c.instance = "" THEN "lemmy.instance is required"
    ELSE IF c.username = "" THEN "lemmy.username is required"
    ELSE IF c.password = "" THEN "lemmy.password is required"
    ELSE IF c.base_directory = "" THEN "storage.base_directory is required"
    ELSE IF c.database_path = "" THEN "database.path is required"
    ELSE IF c.mode # "once" /\ c.mode # "continuous"
         THEN "run_mode.mode must be 'once' or 'continuous'"
    ELSE "nil"

\* Config.Validate: the error of the first check that fails, "nil" for none
Validate(c) ==
    IF c.instance = "" THEN "lemmy.instance is required"
    ELSE IF c.username = "" THEN "lemmy.username is required"
    ELSE IF c.password = "" THEN "lemmy.password is required"
    ELSE IF c.base_directory = "" THEN "storage.base_directory is required"
    ELSE IF c.database_path = "" THEN "database.path is required"
    ELSE IF c.mode # "once" /\ c.mode # "continuous"
         THEN "run_mode.mode must be 'once' or 'continuous'"
    ELSE IF c.mode = "continuous" /\ c.interval = 0
         THEN "run_mode.interval is required for continuous mode"
    ELSE "nil"

\* The spellings normalizeSortType knows, each with its canonical form
sortTypeMap ==
    [ hot |-> "Hot", Hot |-> "Hot", new |-> "New", New |-> "New",
      topday |-> "TopDay", TopDay |-> "TopDay",
      topweek |-> "TopWeek", TopWeek |-> "TopWeek",
      topmonth |-> "TopMonth", TopMonth |-> "TopMonth",
      topyear |-> "TopYear", TopYear |-> "TopYear",
      topall |-> "TopAll", TopAll |-> "TopAll",
      active |-> "Active", Active |-> "Active" ]

\* A normalization that returns every string as it came
normalizeSortType_Identity(sortType) == sortType

\* normalizeSortType: the canonical form of a known spelling, the input
\* unchanged for any other string
normalizeSortType(sortType) ==
    IF sortType \in DOMAIN sortTypeMap THEN sortTypeMap[sortType] ELSE sortType

\* Defaults that never clamp max_posts_per_run
SetDefaults_NoClamp(c) ==
    LET c1 == IF c.max_posts_per_run = 0
              THEN [c EXCEPT !.max_posts_per_run = defaultMaxPostsPerRun] ELSE c
        c2 == IF c1.seen_posts_threshold = 0
              THEN [c1 EXCEPT !.seen_posts_threshold = defaultSeenPostsThreshold]
              ELSE c1
        c4 == IF c2.sort_type = "" THEN [c2 EXCEPT !.sort_type = "Hot"] ELSE c2
        c5 == [c4 EXCEPT !.sort_type = normalizeSortType(c4.sort_type)]
        c6 == IF ~c5.include_images /\ ~c5.include_videos /\ ~c5.include_other
              THEN [c5 EXCEPT !.include_images = TRUE, !.include_videos = TRUE,
                              !.include_other = TRUE]
              ELSE c5
    IN  IF c6.mode = "" THEN [c6 EXCEPT !.mode = "once"] ELSE c6

\* Config.SetDefaults, statement by statement
SetDefaults(c) ==
    LET c1 == IF c.max_posts_per_run = 0
              THEN [c EXCEPT !.max_posts_per_run = defaultMaxPostsPerRun] ELSE c
        c2 == IF c1.seen_posts_threshold = 0
              THEN [c1 EXCEPT !.seen_posts_threshold = defaultSeenPostsThreshold]
              ELSE c1
        c3 == IF ~c2.enable_pagination /\ c2.max_posts_per_run > defaultMaxPostsPerRun
              THEN [c2 EXCEPT !.max_posts_per_run = defaultMaxPostsPerRun] ELSE c2
        c4 == IF c3.sort_type = "" THEN [c3 EXCEPT !.sort_type = "Hot"] ELSE c3
        c5 == [c4 EXCEPT !.sort_type = normalizeSortType(c4.sort_type)]
        c6 == IF ~c5.include_images /\ ~c5.include_videos /\ ~c5.include_other
              THEN [c5 EXCEPT !.include_images = TRUE, !.include_videos = TRUE,
                              !.include_other = TRUE]
              ELSE c5
    IN  IF c6.mode = "" THEN [c6 EXCEPT !.mode = "once"] ELSE c6

ConfigUnchanged ==
    UNCHANGED <<storeVars, dlVars, trackerVars, scrapeVars, tagVars, webVars, raceVars,
                orchVars>>

\* Before any configuration file is read
InitConfig ==
    /\ configured = NoConfig
    /\ cfg = NoConfig
    /\ configRes = [stage |-> "start", err |-> "nil"]

\* LoadConfig: unmarshal the file, validate it, return it or the error
LoadConfig(file) ==
    /\ configRes.stage = "start"
    /\ configured' = file
    /\ LET err == Validate(file)
       IN  /\ cfg' = IF err = "nil" THEN file ELSE NoConfig
           /\ configRes' = [stage |-> IF err = "nil" THEN "loaded" ELSE "failed",
                            err |-> err]
    /\ ConfigUnchanged

\* The caller applies the defaults to the configuration it holds
SetDefaultsStep ==
    /\ configRes.stage \in {"loaded", "defaults", "validated"}
    /\ cfg' = SetDefaults(cfg)
    /\ configRes' = [stage |-> "defaults", err |-> configRes.err]
    /\ UNCHANGED configured
    /\ ConfigUnchanged

\* SaveConfig and the settings handler validate the configuration they hold
ValidateStep ==
    /\ configRes.stage \in {"loaded", "defaults"}
    /\ configRes' = [stage |-> "validated", err |-> Validate(cfg)]
    /\ UNCHANGED <<configured, cfg>>
    /\ ConfigUnchanged

LoadStep == \E file \in Configs : LoadConfig(file)


\* ------------------------------------------------------ web.handleServeMedia

\* The file system the web server runs on: the storage directory /d with a
\* community directory and a media file, a sibling directory /d2 whose name
\* starts with the storage directory's name, a directory /e elsewhere, and
\* one place /d/l under the storage directory where a symlink may be put.
DirP == <<"/", "d", "/", "p">>
DirSibling == <<"/", "d", "2">>
DirElsewhere == <<"/", "e">>
FileInside == <<"/", "d", "/", "p", "/", "f">>
FileSibling == <<"/", "d", "2", "/", "s">>
FileElsewhere == <<"/", "e", "/", "s">>
LinkPath == <<"/", "d", "/", "l">>
Dirs == {<<"/">>, BaseDir, DirP, DirSibling, DirElsewhere}
RegularFiles == {FileInside, FileSibling, FileElsewhere}
NoLink == <<>>
LinkTargets == {NoLink, FileInside, FileSibling, FileElsewhere, DirSibling, DirP}
NoPath == <<"?">>

\* storage.base_directory as configured
BaseDirectories == {BaseDir, <<"/", "d", "/">>}

\* The part of the request path after /media/
MediaPaths ==
    { <<"p", "/", "f">>, <<"l">>, <<"l", "/", "s">>, <<"l", "/", "f">>,
      <<".", ".", "/", "d", "2", "/", "s">>,
      <<"p", "/", ".", ".", "/", ".", ".", "/", "d", "2", "/", "s">>,
      <<"/", "e", "/", "s">>, <<".", ".">>, <<>>, <<"p", "/", ".", ".", "/", "l">>,
      <<"x">>, <<"p">>, <<"p", "/", "/", "f">> }

\* filepath.IsAbs on a Unix build
IsAbs(path) == HasPrefix(path, <<"/">>)

\* filepath.Clean of a relative path: a leading .. stays
RECURSIVE CleanRelElems(_, _)
CleanRelElems(todo, done) ==
    IF todo = <<>> THEN done
    ELSE LET e == Head(todo)
         IN  IF e = <<>> \/ e = <<".">> THEN CleanRelElems(Tail(todo), done)
             ELSE IF e = <<".", ".">> /\ done # <<>> /\ done[Len(done)] # <<".", ".">>
                  THEN CleanRelElems(Tail(todo), SubSeq(done, 1, Len(done) - 1))
                  ELSE CleanRelElems(Tail(todo), Append(done, e))

\* filepath.Clean
Clean(path) ==
    IF path = <<>> THEN <<".">>
    ELSE IF IsAbs(path)
         THEN <<"/">> \o JoinSlash(CleanElems(SplitSlash(path), <<>>))
    ELSE LET elems == CleanRelElems(SplitSlash(path), <<>>)
         IN  IF elems = <<>> THEN <<".">> ELSE JoinSlash(elems)

\* filepath.Join of two elements: the non-empty ones joined by / and cleaned
Join(a, b) ==
    IF a = <<>> THEN (IF b = <<>> THEN <<>> ELSE Clean(b))
    ELSE IF b = <<>> THEN Clean(a)
    ELSE Clean(a \o <<"/">> \o b)

\* The walk of filepath.EvalSymlinks from the root: every element must
\* exist, an element below a regular file does not, the symlink is replaced
\* by its target
RECURSIVE WalkLinks(_, _, _)
WalkLinks(cur, todo, target) ==
    IF cur = NoPath \/ todo = <<>> THEN cur
    ELSE LET next == IF cur = <<"/">> THEN cur \o Head(todo)
                     ELSE cur \o <<"/">> \o Head(todo)
         IN  IF cur \notin Dirs THEN NoPath
             ELSE IF next = LinkPath
                  THEN (IF target = NoLink THEN NoPath
                        ELSE WalkLinks(target, Tail(todo), target))
             ELSE IF next \in Dirs \cup RegularFiles
                  THEN WalkLinks(next, Tail(todo), target)
             ELSE NoPath

\* filepath.EvalSymlinks of a clean absolute path, NoPath for an error
EvalSymlinks(path, target) ==
    WalkLinks(<<"/">>, CleanElems(SplitSlash(path), <<>>), target)

\* net/http.ServeFile refuses a request path with a .. element
containsDotDot(path) == \E i \in 1..Len(SplitSlash(path)) : SplitSlash(path)[i] = <<".", ".">>

\* The check of handleServeMedia: strings.HasPrefix(resolvedPath, baseDir)
PrefixOk(resolvedPath, baseDir) == HasPrefix(resolvedPath, baseDir)

Respond(base, path, code, file) ==
    served' = [base |-> base, path |-> path, code |-> code, file |-> file]

WebUnchanged ==
    UNCHANGED <<storeVars, dlVars, trackerVars, scrapeVars, tagVars, configVars, raceVars,
                orchVars>>

\* handleServeMedia for the request path /media/<mediaPath>; os.Stat follows
\* symlinks as EvalSymlinks does, so it fails whenever EvalSymlinks failed
handleServeMedia(baseDirectory, mediaPath) ==
    LET cleanedPath == Clean(mediaPath)
        baseDir == Clean(baseDirectory)
        fullPath == Join(baseDir, cleanedPath)
        resolvedPath == EvalSymlinks(fullPath, linkTarget)
    IN  /\ IF IsAbs(cleanedPath) \/ HasPrefix(cleanedPath, <<".", ".">>)
           THEN Respond(baseDirectory, mediaPath, 400, NoPath)
           ELSE IF resolvedPath = NoPath
           THEN Respond(baseDirectory, mediaPath, 404, NoPath)
           ELSE IF ~PrefixOk(resolvedPath, baseDir)
           THEN Respond(baseDirectory, mediaPath, 403, NoPath)
           ELSE IF containsDotDot(<<"/", "m", "/">> \o mediaPath)
           THEN Respond(baseDirectory, mediaPath, 400, NoPath)
           ELSE Respond(baseDirectory, mediaPath, 200, resolvedPath)
        /\ UNCHANGED linkTarget
        /\ WebUnchanged

\* Someone with access to the storage directory puts, moves or removes the
\* symlink /d/l
PlaceSymlink(target) ==
    /\ linkTarget # target
    /\ linkTarget' = target
    /\ UNCHANGED served
    /\ WebUnchanged

NoResponse == [base |-> <<>>, path |-> <<>>, code |-> 0, file |-> NoPath]

InitWeb ==
    /\ linkTarget = NoLink
    /\ served = NoResponse

ServeStep ==
    \E baseDirectory \in BaseDirectories, mediaPath \in MediaPaths :
        handleServeMedia(baseDirectory, mediaPath)
SymlinkStep == \E target \in LinkTargets : PlaceSymlink(target)


\* ------------------------------------------------------ per-post processing

\* DB.CommentsExistForPost
CommentsExistForPost(postID) == \E c \in comments : c.post_id = postID

\* DB.SaveComment: INSERT OR REPLACE on the primary key comment_id
SaveComment(commentView) ==
    { c \in comments : c.comment_id # commentView.comment_id }
    \cup {[comment_id |-> commentView.comment_id, post_id |-> commentView.post_id]}

\* No post is being processed
NoCurrent ==
    [id |-> 0, phase |-> "idle", todo |-> <<>>, saved |-> 0, tree |-> <<>>,
     videos |-> TRUE]

\* The candidate URLs of a post in priority order: main post URL, embedded
\* video URL, thumbnail URL (fallback only)
CandidateLists ==
    { <<>>,
      <<[url |-> UrlA, fallback |-> FALSE]>>,
      <<[url |-> UrlA, fallback |-> FALSE], [url |-> UrlB, fallback |-> FALSE]>>,
      <<[url |-> UrlB, fallback |-> FALSE], [url |-> UrlA, fallback |-> TRUE]>> }

\* The comment tree the feed returns for a post: one comment to keep, one
\* removed and one deleted
CommentTree(postID) ==
    << [comment_id |-> 3 * postID - 2, post_id |-> postID, removed |-> FALSE,
        deleted |-> FALSE],
       [comment_id |-> 3 * postID - 1, post_id |-> postID, removed |-> TRUE,
        deleted |-> FALSE],
       [comment_id |-> 3 * postID, post_id |-> postID, removed |-> FALSE,
        deleted |-> TRUE] >>

OrchUnchanged ==
    UNCHANGED <<storeVars, dlVars, trackerVars, scrapeVars, tagVars, appVars>>

\* The orchestrator takes the next post of the page: the page lists the
\* posts by id and the posts before this one are recorded
BeginPost(postID, candidates, includeVideos) ==
    /\ current.phase = "idle"
    /\ \A q \in PostIds : q < postID <=> PostExists(q)
    /\ current' = [id |-> postID, phase |-> "media", todo |-> candidates, saved |-> 0,
                   tree |-> <<>>, videos |-> includeVideos]
    /\ postLog' = <<>>
    /\ UNCHANGED comments
    /\ OrchUnchanged

\* The candidate is passed over: a thumbnail when a media was saved already,
\* or a kind that admission refuses
PassedOver(cur) ==
    LET c == Head(cur.todo)
    IN  \/ c.fallback /\ cur.saved > 0
        \/ ~ShouldDownload(c.url, TRUE, cur.videos, TRUE)

SkipCandidate ==
    /\ current.phase = "media"
    /\ current.todo # <<>>
    /\ PassedOver(current)
    /\ current' = [current EXCEPT !.todo = Tail(@)]
    /\ UNCHANGED <<postLog, comments>>
    /\ OrchUnchanged

\* "For each candidate passing admission, invoke the Download Pipeline": a
\* pipeline that returns a record counts as a saved media
TryCandidate(content, contentType, fault) ==
    /\ current.phase = "media"
    /\ current.todo # <<>>
    /\ ~PassedOver(current)
    /\ DownloadMedia(Head(current.todo).url, current.id, content, TRUE, contentType, fault)
    /\ LET ok == result'.err = "none" /\ result'.media # NoMedia
       IN  /\ current' = [current EXCEPT !.todo = Tail(@),
                                         !.saved = IF ok THEN @ + 1 ELSE @]
           /\ postLog' = IF ok
                         THEN Append(postLog, [op |-> "media", n |-> result'.media.id])
                         ELSE postLog
    /\ UNCHANGED comments

\* Comments wanted after the first saved media, with candidates still to try
CommentsDue_AfterFirst(cur) == cur.phase = "media" /\ cur.saved >= 1

\* "After at least one media is saved": every candidate was tried and one of
\* them was saved
CommentsDue(cur) == cur.phase = "media" /\ cur.todo = <<>> /\ cur.saved >= 1

\* "if comments for the post are not already present in the catalog, fetch
\* the comment tree"; a failed fetch is logged and leaves nothing to store
FetchComments(ok) ==
    /\ CommentsDue(current)
    /\ ~CommentsExistForPost(current.id)
    /\ current' = [current EXCEPT !.phase = "comments",
                                  !.tree = IF ok THEN CommentTree(current.id) ELSE <<>>]
    /\ postLog' = Append(postLog, [op |-> "fetch", n |-> 0])
    /\ UNCHANGED comments
    /\ OrchUnchanged

\* No media was saved, or the comments of the post are in the catalog
SkipComments ==
    /\ current.phase = "media"
    /\ current.todo = <<>>
    /\ current.saved = 0 \/ CommentsExistForPost(current.id)
    /\ current' = [current EXCEPT !.phase = "mark"]
    /\ UNCHANGED <<postLog, comments>>
    /\ OrchUnchanged

\* "upsert non-removed, non-deleted entries", one entry at a time
StoreComment ==
    /\ current.phase = "comments"
    /\ IF current.tree = <<>>
       THEN /\ current' = [current EXCEPT !.phase = "mark"]
            /\ UNCHANGED <<postLog, comments>>
       ELSE LET commentView == Head(current.tree)
            IN  /\ current' = [current EXCEPT !.tree = Tail(@)]
                /\ IF commentView.removed \/ commentView.deleted
                   THEN UNCHANGED <<postLog, comments>>
                   ELSE /\ comments' = SaveComment(commentView)
                        /\ postLog' = Append(postLog,
                                [op |-> "comment", n |-> commentView.comment_id])
    /\ OrchUnchanged

\* "Finally, mark the post as scraped with the final media count."
MarkPost ==
    /\ current.phase = "mark"
    /\ MarkPostAsScraped(current.id, current.saved)
    /\ current' = [current EXCEPT !.phase = "idle"]
    /\ postLog' = Append(postLog, [op |-> "mark", n |-> current.saved])
    /\ UNCHANGED comments

InitOrch ==
    /\ current = NoCurrent
    /\ postLog = <<>>
    /\ comments = {}


\* ------------------------------------------------------ concurrent tag creation

\* The goroutines that get or create a tag at the same time: a web request
\* (handleTags, Manager.CreateUserTag) and either another web request or the
\* auto-tagger (Manager.AutoTagMedia on the media 1)
Goroutines == {"web", "other"}
NoRacer == [op |-> "none", pc |-> "idle", name |-> <<>>, err |-> "none", id |-> 0]

RaceUnchanged ==
    UNCHANGED <<storeVars, dlVars, trackerVars, scrapeVars, foreignKeys, tagRes,
                configVars, webVars, orchVars>>

\* The call starts: AutoTagMedia skips a label shorter than 2, and the name
\* is normalized
RaceBegin(g, op, name) ==
    /\ racers[g].pc = "idle"
    /\ op = "auto" => Len(name) >= 2
    /\ racers' = [racers EXCEPT ![g] = [op |-> op, pc |-> "lookup",
                                        name |-> normalizeTagName(name),
                                        err |-> "none", id |-> 0]]
    /\ UNCHANGED <<tags, tagSeq, assignments>>
    /\ RaceUnchanged

\* m.DB.GetTagByName(name): the tag exists and its id is taken, or it does
\* not and the caller goes on to create it
RaceLookup(g) ==
    /\ racers[g].pc = "lookup"
    /\ LET existing == GetTagByName(racers[g].name)
       IN  racers' = [racers EXCEPT ![g] =
                IF existing = NoTag THEN [@ EXCEPT !.pc = "create"]
                ELSE [@ EXCEPT !.id = existing.id,
                               !.pc = IF racers[g].op = "auto" THEN "assign" ELSE "done"]]
    /\ UNCHANGED <<tags, tagSeq, assignments>>
    /\ RaceUnchanged

\* m.DB.CreateTag(name, color, auto): CreateUserTag returns the id or the
\* error; AutoTagMedia logs the error and goes to the next label
RaceCreate(g) ==
    /\ racers[g].pc = "create"
    /\ tagSeq < MaxTagSeq
    /\ IF CreateTagErr(tags, racers[g].name) # "none"
       THEN /\ racers' = [racers EXCEPT ![g].pc = "done",
                                        ![g].err = CreateTagErr(tags, racers[g].name)]
            /\ UNCHANGED <<tags, tagSeq>>
       ELSE /\ tags' = tags \cup {CreatedTag(tagSeq, racers[g].name, racers[g].op = "auto")}
            /\ tagSeq' = tagSeq + 1
            /\ racers' = [racers EXCEPT ![g].id = tagSeq + 1,
                                        ![g].pc = IF racers[g].op = "auto" THEN "assign" ELSE "done"]
    /\ UNCHANGED assignments
    /\ RaceUnchanged

\* m.DB.AssignTagToMedia(mediaID, tagID) of AutoTagMedia
RaceAssign(g) ==
    /\ racers[g].pc = "assign"
    /\ assignments' = Assigned(assignments, 1, racers[g].id, tags)
    /\ racers' = [racers EXCEPT ![g].pc = "done",
                                ![g].err = AssignErr(1, racers[g].id, tags)]
    /\ UNCHANGED <<tags, tagSeq>>
    /\ RaceUnchanged

InitRace == racers = [g \in Goroutines |-> NoRacer]

InitApp == InitConfig /\ InitWeb /\ InitOrch /\ InitRace

\* ------------------------------------------------------ specifications

vars == <<media, mediaSeq, posts, marked, saved, ftsTable, ftsTriggers, ftsIndex,
          ftsAvailable, initFault, searchRes, files, result, trackerVars, scrapeVars,
          tagVars, appVars, orchVars>>

\* A new database file, before database.New has run on it
EmptyStore ==
    /\ media = {}
    /\ mediaSeq = 0
    /\ posts = {}
    /\ marked = NoMark
    /\ saved = [err |-> "none", id |-> 0, row |-> NoMedia]
    /\ searchRes = NoSearch

\* The store as database.New leaves a new file when fault occurs
InitStore(fault) ==
    LET r == initSearchIndex(fault, FALSE, FALSE, {}, {}) IN
    /\ EmptyStore
    /\ initFault = fault
    /\ ftsTable = r.table
    /\ ftsTriggers = r.triggers
    /\ ftsIndex = r.index
    /\ ftsAvailable = initSchemaFlag(r)

InitDL ==
    /\ files = {}
    /\ result = [url |-> <<>>, sent |-> FALSE, err |-> "none", media |-> NoMedia,
                 hash |-> NoHash, size |-> -1, read |-> -1]

\* A build with FTS5, nothing failing
Init == InitStore("none") /\ InitDL /\ InitTracker /\ IdleScrape /\ InitTags(FALSE) /\ InitApp

\* The requests that differ in what a call does: a rejected URL, a fault or an
\* oversize body is tried with one post, one URL and one header setting, since
\* the call returns before it looks at the rest.
OkContents == { c \in Contents : c.len <= maxFileSize }
BigContents == Contents \ OkContents
AnyContent == CHOOSE c \in OkContents : TRUE
AnyPost == CHOOSE p \in PostIds : TRUE
Requests ==
    [url : Urls \ ValidUrls, post : {AnyPost}, content : {AnyContent}, hasLen : {FALSE},
     fault : {"none"}]
    \cup [url : ValidUrls, post : {AnyPost}, content : {AnyContent}, hasLen : {FALSE},
          fault : {"net"}]
    \cup [url : {UrlA}, post : {AnyPost}, content : {AnyContent}, hasLen : {FALSE},
          fault : {"status", "read"}]
    \cup [url : {UrlA}, post : {AnyPost}, content : BigContents, hasLen : BOOLEAN,
          fault : {"none", "read"}]
    \cup [url : {UrlA}, post : {AnyPost}, content : OkContents, hasLen : {TRUE},
          fault : {"mkdir", "write"}]
    \cup [url : HostedUrls, post : PostIds, content : OkContents, hasLen : {TRUE},
          fault : {"none", "db"}]

DownloadStep ==
    \E r \in Requests, contentType \in ContentTypes :
        /\ DownloadMedia(r.url, r.post, r.content, r.hasLen, contentType, r.fault)
        /\ UNCHANGED orchVars

MarkStep ==
    \E postID \in PostIds, mediaCount \in 0..MaxCount :
        MarkPostAsScraped(postID, mediaCount) /\ UNCHANGED orchVars

\* Posts observed again and again, with any media count up to MaxRecount
MaxRecount == 9
RemarkStep ==
    \E postID \in PostIds, mediaCount \in 0..MaxRecount :
        MarkPostAsScraped(postID, mediaCount) /\ UNCHANGED orchVars

\* The rows a caller may hand to DB.SaveMedia
StoreRows ==
    { RowOf[u, p, c, ct] : u \in HostedUrls, p \in PostIds, c \in OkContents,
                           ct \in ContentTypes }

\* The columns of the virtual table media_search_fts and of its content
\* table scraped_media
ftsColumns == {"media_id", "post_title", "community_name", "creator_name", "post_url"}
mediaColumns ==
    {"id", "post_id", "post_title", "community_name", "community_id", "author_name",
     "author_id", "media_url", "media_hash", "file_name", "file_path", "file_size",
     "media_type", "post_url", "post_score", "post_created", "downloaded_at"}

\* An external-content FTS5 table reads the old values of a row from the
\* content table by its own column names; SQLite fails the statement with
\* "no such column" when the content table lacks one of them
ContentReadable == ftsColumns \subseteq mediaColumns

\* The triggers media_search_update and media_search_delete change an entry
\* of the index, which reads the entry's old content
TriggerFails == ftsTriggers /\ ~ContentReadable

\* DELETE FROM scraped_media WHERE id = ?, with the trigger media_search_delete
DeleteMedia(id) ==
    /\ \E m \in media : m.id = id
    /\ IF TriggerFails
       THEN /\ saved' = [err |-> "no-such-column", id |-> id, row |-> NoMedia]
            /\ UNCHANGED mediaVars
       ELSE /\ media' = { m \in media : m.id # id }
            /\ ftsIndex' = IF ftsTriggers THEN ftsIndex \ {id} ELSE ftsIndex
            /\ saved' = [err |-> "deleted", id |-> id, row |-> NoMedia]
            /\ UNCHANGED mediaSeq
    /\ UNCHANGED <<postVars, ftsVars, dlVars, trackerVars, scrapeVars, tagVars, appVars, orchVars>>

\* UPDATE scraped_media SET community_name = ? WHERE id = ?, with the trigger
\* media_search_update
UpdateMedia(id, community) ==
    /\ \E m \in media : m.id = id
    /\ IF TriggerFails
       THEN /\ saved' = [err |-> "no-such-column", id |-> id, row |-> NoMedia]
            /\ UNCHANGED mediaVars
       ELSE /\ media' = { IF m.id = id THEN [m EXCEPT !.community_name = community]
                          ELSE m : m \in media }
            /\ saved' = [err |-> "updated", id |-> id, row |-> NoMedia]
            /\ UNCHANGED <<mediaSeq, ftsIndex>>
    /\ UNCHANGED <<postVars, ftsVars, dlVars, trackerVars, scrapeVars, tagVars, appVars, orchVars>>

SaveMediaStep == \E row \in StoreRows, dbFault \in BOOLEAN : SaveMedia(row, dbFault)

NewStep == \E fault \in InitFaults : New(fault)

SearchStep == \E query \in Queries : SearchMedia(query)

\* The download pipeline
Next == DownloadStep
Spec == Init /\ [][Next]_vars

\* The download pipeline and the post table
NextCatalog == DownloadStep \/ MarkStep
SpecCatalog == Init /\ [][NextCatalog]_vars

\* The post table under repeated marks
NextPosts == RemarkStep
SpecPosts == Init /\ [][NextPosts]_vars

\* The media table under direct saves
NextStore == SaveMediaStep
SpecStore == Init /\ [][NextStore]_vars

\* The store opened (and reopened) on any engine, saves and searches
InitSearch == (\E fault \in InitFaults : InitStore(fault)) /\ InitDL /\ InitTracker /\ IdleScrape /\ InitTags(FALSE) /\ InitApp
NextSearch == NewStep \/ SearchStep \/ SaveMediaStep
SpecSearch == InitSearch /\ [][NextSearch]_vars


\* The progress tracker: the scrape loop's mutators, Tracker.run and the
\* WebSocket connections
MutatorStep ==
    \/ Start \/ Stop \/ UpdateCommunity \/ IncrementPosts \/ IncrementMedia
    \/ IncrementErrors \/ UpdateOperation \/ UpdateProgress
RunStep ==
    \/ \E c \in ClientIds : RunRegister(c) \/ RunRegisterSend(c) \/ RunUnregister(c)
                            \/ RunBroadcastSend(c)
    \/ RunBroadcast \/ RunBroadcastDone \/ sendToClientReturns \/ RunTick
ConnStep == \E c \in ClientIds : Connect(c) \/ PeerStalls(c) \/ PeerCloses(c) \/ ReadFails(c)

NextTracker == MutatorStep \/ broadcastStatus \/ RunStep \/ ConnStep
SpecTracker == Init /\ [][NextTracker]_vars

\* The same, with the scheduling the Go runtime gives: a goroutine that can
\* take a step takes it (Tracker.run, sendToClient returning, broadcastStatus,
\* the reader goroutine). Nothing obliges the scrape loop to call a mutator,
\* a browser to connect, or a peer to stall or to go away.
TrackerFairness ==
    /\ WF_vars(RunStep)
    /\ WF_vars(broadcastStatus)
    /\ \A c \in ClientIds : WF_vars(ReadFails(c))
FairSpecTracker == SpecTracker /\ TrackerFairness


\* One scrape session over a catalog that holds the session's known posts
InitSession ==
    /\ InitDL /\ InitTracker /\ InitTags(FALSE) /\ InitApp
    /\ \E s \in Sessions :
         /\ InitScrape(s)
         /\ posts = CatalogRows(s.catalog)
    /\ marked = NoMark
    /\ media = {} /\ mediaSeq = 0 /\ saved = [err |-> "none", id |-> 0, row |-> NoMedia]
    /\ ftsTable = TRUE /\ ftsTriggers = TRUE /\ ftsIndex = {} /\ ftsAvailable = TRUE
    /\ initFault = "none" /\ searchRes = NoSearch
NextScrape == FetchPage \/ ApplyItem \/ EndPage
SpecScrape == InitSession /\ [][NextScrape]_vars

\* A session from an empty catalog, then the same session once more
InitRerun ==
    /\ InitDL /\ InitTracker /\ InitTags(FALSE) /\ InitApp
    /\ \E s \in RerunSessions : InitScrape(s)
    /\ EmptyStore
    /\ ftsTable = TRUE /\ ftsTriggers = TRUE /\ ftsIndex = {} /\ ftsAvailable = TRUE
    /\ initFault = "none"
NextRerun == FetchPage \/ ApplyItem \/ EndPage \/ Rerun
SpecRerun == InitRerun /\ [][NextRerun]_vars

\* The tag manager over a catalog that holds one media row (id 1)
MediaIdArgs == 1..2
TagIdArgs == 1..MaxTagSeq
TagStep ==
    \/ \E name \in TagInputs : CreateUserTag(name)
    \/ \E mediaID \in MediaIdArgs, labels \in LabelLists, classifyFails \in BOOLEAN :
         AutoTagMedia(mediaID, labels, classifyFails)
    \/ \E mediaID \in MediaIdArgs, tagID \in TagIdArgs :
         AssignTag(mediaID, tagID) \/ RemoveTag(mediaID, tagID)
    \/ \E tagID \in TagIdArgs : DeleteTag(tagID)
InitTagged ==
    /\ InitDL /\ InitTracker /\ IdleScrape /\ (\E fk \in BOOLEAN : InitTags(fk)) /\ InitApp
    /\ LET row == RowOf[UrlA, 1, AnyContent, "image/png"] IN
         /\ media = {[row EXCEPT !.id = 1]} /\ mediaSeq = 1 /\ ftsIndex = {1}
         /\ saved = [err |-> "none", id |-> 1, row |-> row]
    /\ posts = {} /\ marked = NoMark /\ searchRes = NoSearch /\ initFault = "none"
    /\ ftsTable = TRUE /\ ftsTriggers = TRUE /\ ftsAvailable = TRUE
NextTags == TagStep
SpecTags == InitTagged /\ [][NextTags]_vars

\* =====================================================================
\* Claims
\* =====================================================================

\* ---- C1 (checked under Spec)
\* C1: every media record m of the catalog has a file at m.file_path, and the
\* SHA-256 of that file's bytes equals m.media_hash.
C1_FilesMatchCatalog ==
    \A m \in media :
        \E f \in files : f.path = m.file_path /\ HashContent(f.content) = m.media_hash

\* ---- C2 (checked under Spec)
\* C2: a DownloadMedia call that fetches bytes whose hash is already in the
\* catalog changes no file and no media row and returns the stored record with
\* that hash; the catalog then holds exactly one row with that hash.
C2_DedupReturnsExisting ==
    [][ ( /\ result'.hash # NoHash
          /\ \E m \in media : m.media_hash = result'.hash )
        => /\ files' = files
           /\ media' = media
           /\ result'.err = "none"
           /\ result'.media \in media
           /\ result'.media.media_hash = result'.hash
           /\ Cardinality({ m \in media' : m.media_hash = result'.hash }) = 1
      ]_vars

\* C2 witness: the last call returned a stored record that is not the newest
\* row, so it was answered from the catalog, and that record is the only row
\* with its hash.
C2_Witness ==
    /\ result.err = "none"
    /\ result.media \in media
    /\ result.media.id < mediaSeq
    /\ Cardinality({ m \in media : m.media_hash = result.media.media_hash }) = 1

\* ---- C4 (checked under SpecSearch)
\* C4: when the virtual table or the triggers could not be created in the last
\* initialization, ftsAvailable is false and a search made since then returned
\* search-unavailable.
C4_FailedInitDisablesSearch ==
    initFault \in {"no_fts5", "triggers"} =>
        /\ ~ftsAvailable
        /\ searchRes # NoSearch => searchRes.err = "search-unavailable"

\* ---- C6 (checked under SpecCatalog)
\* C6: every media record's post id is the id of an existing post record.
C6_MediaPostExists == \A m \in media : \E p \in posts : p.post_id = m.post_id

\* ---- C7 (checked under SpecStore)
BreaksUnique(row) ==
    \E m \in media : \/ m.media_hash = row.media_hash
                     \/ (m.post_id = row.post_id /\ m.media_url = row.media_url)

\* C7: no two media records share a content hash, a (post id, source URL) or
\* an id; a SaveMedia call that would break a rule fails and leaves the table
\* unchanged; a successful one adds the row under an id no record had.
C7_MediaKeysUnique ==
    /\ [](\A m1, m2 \in media :
            ( \/ m1.media_hash = m2.media_hash
              \/ (m1.post_id = m2.post_id /\ m1.media_url = m2.media_url)
              \/ m1.id = m2.id ) => m1 = m2)
    /\ [][ \A row \in StoreRows, dbFault \in BOOLEAN :
             SaveMedia(row, dbFault) =>
                IF BreaksUnique(row)
                THEN media' = media /\ saved'.err # "none"
                ELSE IF saved'.err = "none"
                THEN /\ saved'.id \notin { m.id : m \in media }
                     /\ media' = media \cup { [row EXCEPT !.id = saved'.id] }
                ELSE media' = media
       ]_vars

\* C7 witness: a save was refused for its (post, URL) although its hash is new
C7_Witness ==
    /\ saved.err = "duplicate-post-url"
    /\ \A m \in media : m.media_hash # saved.row.media_hash
    /\ \E m \in media : m.post_id = saved.row.post_id /\ m.media_url = saved.row.media_url

\* ---- C8 (checked under Spec)
\* C8: a DownloadMedia call that fetches a body while the catalog already holds
\* its hash, or already holds a record of the same post and URL, returns a
\* record and no error (nothing else failing).
FetchedOk(r) ==
    r.url \in ValidUrls /\ r.fault = "none" /\ r.content \in OkContents

C8_DuplicateIsSuccess ==
    [][ \A r \in Requests, ct \in ContentTypes :
          ( /\ FetchedOk(r)
            /\ \E m \in media : \/ m.media_hash = HashContent(r.content)
                                \/ (m.post_id = r.post /\ m.media_url = r.url)
            /\ DownloadMedia(r.url, r.post, r.content, r.hasLen, ct, r.fault) )
          => result'.err = "none" /\ result'.media # NoMedia
      ]_vars

\* C3: within one run (same started_at), a snapshot delivered to a listener
\* never shows a posts, media or errors counter lower than the snapshot that
\* listener received before it.
NotLower(old, new) ==
    /\ new.posts_processed >= old.posts_processed
    /\ new.media_downloaded >= old.media_downloaded
    /\ new.errors_count >= old.errors_count

C3_CountersNeverDecrease ==
    [][\A c \in ClientIds :
         (/\ conn[c].last # NoStatus
          /\ conn'[c].last # conn[c].last
          /\ conn'[c].last.started_at = conn[c].last.started_at)
         => NotLower(conn[c].last, conn'[c].last)]_vars

\* C9: no listener write is in progress while the state lock is held, so a
\* mutator that wants the lock never waits for a listener write.
C9_NoWriteUnderLock == writing # NoWrite => MayLock

\* C10: a registered listener to which a write has failed is eventually
\* removed from the registry and closed.
C10_FailedListenerRemoved ==
    \A c \in ClientIds :
        (c \in clients /\ conn[c].wfailed)
            ~> (c \notin clients /\ conn[c].phase = "closed")

\* C5: with stop-at-seen set and threshold N, the session is STOPPED as soon
\* as the last N posts looked at were all already known; once STOPPED no
\* further post is looked at or processed; a known post met with stop-at-seen
\* set is not counted as processed; and for catalog {1..10}, feed
\* 11, 1, 2, 3, 4, 5, 12 and N = 3 the session ends with posts_processed = 1.
RECURSIVE TrailingKnown(_)
TrailingKnown(log) ==
    IF log = <<>> \/ ~log[Len(log)].known THEN 0
    ELSE 1 + TrailingKnown(SubSeq(log, 1, Len(log) - 1))

StopAtSeenSession == session.config.stop_at_seen_posts

IsScenario ==
    /\ StopAtSeenSession
    /\ session.config.seen_posts_threshold = 3
    /\ session.feed = ScenarioFeed
    /\ session.catalog = ScenarioCatalog

C5_StopAtSeen ==
    /\ [](StopAtSeenSession
            /\ TrailingKnown(scrapeLog) >= session.config.seen_posts_threshold
          => scrapeState = "STOPPED")
    /\ [](IsScenario /\ scrapeState \in {"STOPPED", "TERMINATED"}
          => scrapeState = "STOPPED" /\ processed = 1)
    /\ [][/\ scrapeState = "STOPPED"
             => UNCHANGED <<scrapeState, processed, posts, scrapeLog>>
          /\ (StopAtSeenSession /\ Len(scrapeLog') > Len(scrapeLog)
                /\ scrapeLog'[Len(scrapeLog')].known)
             => processed' = processed /\ posts' = posts]_vars

\* The scenario has run to its end: 11 processed, then 1, 2, 3 met in a row
C5_Witness ==
    /\ IsScenario
    /\ scrapeState = "STOPPED"
    /\ processed = 1
    /\ [i \in 1..Len(scrapeLog) |-> scrapeLog[i].id] = <<11, 1, 2, 3>>
    /\ PostExists(11)

\* C11: every stored tag name consists of a-z, 0-9 and "-" only and has at
\* least 2 characters.
TagNameValid(name) ==
    /\ Len(name) >= 2
    /\ \A i \in 1..Len(name) :
         (\E k \in 1..26 : LowerChars[k] = name[i]) \/ IsDigit(name[i]) \/ name[i] = "-"

C11_TagNamesValid == \A t \in tags : TagNameValid(t.name)

\* C20: every tag assignment refers to an existing media record and an
\* existing tag.
C20_AssignmentsRefer ==
    \A a \in assignments :
        /\ \E m \in media : m.id = a.media_id
        /\ \E t \in tags : t.id = a.tag_id

\* C12: in a session the number of posts processed never exceeds
\* max_posts_per_run.
C12_ProcessedWithinMax == processed <= session.config.max_posts_per_run

\* C13: a DownloadMedia call that parsed a Content-Length above 500 MiB
\* returns oversize without reading the body; one that read more than 500 MiB
\* returns oversize; one that read exactly 500 MiB does not return oversize
\* and succeeds unless a later step (directory, file, insert) fails; oversize
\* is returned for no size at or below 500 MiB, and an oversize call writes no
\* file and adds no media row.
C13_SizeCeiling ==
    [][ /\ result'.size > maxFileSize => result'.err = "oversize" /\ result'.read = -1
        /\ result'.read > maxFileSize => result'.err = "oversize"
        /\ result'.read = maxFileSize =>
             /\ result'.err \in {"none", "mkdir-failed", "write-failed", "save-failed"}
             /\ result'.err = "none" => result'.media \in media'
        /\ result'.err = "oversize" =>
             /\ result'.size > maxFileSize \/ result'.read > maxFileSize
             /\ files' = files /\ media' = media /\ result'.media = NoMedia
      ]_vars

\* C13 witness: a body of exactly 500 MiB was stored by the last call
C13_Witness ==
    /\ result.err = "none"
    /\ result.read = maxFileSize
    /\ result.media \in media
    /\ result.media.id = mediaSeq
    /\ \E f \in files : f.path = result.media.file_path /\ f.content.len = maxFileSize


\* The hosts C14 names: loopback (localhost, 127.0.0.0/8, ::1), link-local
\* (169.254.0.0/16, fe80::/10) and private (the ranges of privateRanges)
InternalHost(hostname) ==
    \/ hostname \in localAddresses
    \/ HasPrefix(hostname, <<"1", "2", "7", ".">>)
    \/ \E c \in {"8", "9", "a", "b"} : HasPrefix(hostname, <<"f", "e", c>>)
    \/ \E r \in privateRanges : HasPrefix(hostname, r)

\* The URLs C14 says are never fetched
MustReject(url) ==
    LET parsed == ParseURL(url)
    IN  \/ url = <<>>
        \/ parsed.err
        \/ parsed.scheme \notin { <<"h", "t", "t", "p">>, <<"h", "t", "t", "p", "s">> }
        \/ parsed.host = <<>>
        \/ InternalHost(ToLower(Hostname(parsed.host)))

\* C14: a call of DownloadMedia with an empty URL, a scheme other than http
\* and https, an empty host, or a loopback, link-local or private host sends no
\* request and returns the invalid-url (or empty-url) error.
C14_InternalUrlsRejected ==
    [][ result' # result /\ MustReject(result'.url) =>
            ~result'.sent /\ result'.err \in {"empty-url", "invalid-url"} ]_vars

\* C15: every file DownloadMedia writes lies inside the base directory, exactly
\* one directory level below it, and neither of the two components below the
\* base contains one of / \ : * ? " < > |.
InCommunityDir(path) ==
    LET n    == Len(BaseDir) + 1
        rest == SubSeq(path, n + 1, Len(path))
        cut  == IndexOfChar(rest, "/")
    IN  /\ HasPrefix(path, BaseDir \o <<"/">>)
        /\ 1 < cut /\ cut < Len(rest)
        /\ \A i \in 1..Len(rest) : i # cut => rest[i] \notin invalidPathChars

C15_FileInCommunityDir == \A f \in files : InCommunityDir(f.path)

\* Whether the inclusion flags admit a media kind
KindEnabled(mediaType, includeImages, includeVideos, includeOther) ==
    CASE mediaType = "image" -> includeImages
      [] mediaType = "video" -> includeVideos
      [] OTHER -> includeOther

\* C16: under every setting of the inclusion flags, a media record whose URL
\* ShouldDownload admits has a stored kind that the flags enable.
C16_StoredKindAdmitted ==
    \A m \in media : \A i \in BOOLEAN, v \in BOOLEAN, o \in BOOLEAN :
        ShouldDownload(m.media_url, i, v, o) => KindEnabled(m.media_type, i, v, o)

\* The log entries of posts whose handling failed
FailedEntries(log) == { i \in 1..Len(log) : log[i].failed }

C18_RerunStopsWithinThreshold ==
    run = 2 => Len(scrapeLog) <= session.config.seen_posts_threshold

\* The first N posts of the feed (all of them when the feed is shorter) were
\* in the catalog when the run started
HeadRecorded ==
    \A i \in 1..Min(session.config.seen_posts_threshold, Len(session.feed)) :
        session.feed[i] \in session.catalog

\* C18 (amended): the second run of a session with stop-at-seen and threshold
\* N looks at no more than N posts when the first run recorded the first N
\* posts of the feed.
C18_RerunStopsWhenHeadRecorded ==
    (run = 2 /\ HeadRecorded) => Len(scrapeLog) <= session.config.seen_posts_threshold

\* C18 witness: a second run stopped at its Nth post, N > 1, with posts of the
\* feed left
C18_Witness ==
    /\ run = 2
    /\ HeadRecorded
    /\ scrapeState = "STOPPED"
    /\ session.config.seen_posts_threshold > 1
    /\ Len(scrapeLog) = session.config.seen_posts_threshold
    /\ Len(session.feed) > Len(scrapeLog)
    /\ processed = 0

\* The scraped_posts row a call of MarkPostAsScraped(postID, k) writes
MarkRow(postID, k) == [post_id |-> postID, had_media |-> k > 0, media_count |-> k]

\* C19: the post table holds one row per post id, had_media of a row is true
\* exactly when its media_count is above 0, a call of MarkPostAsScraped
\* returns no error and the row of its post holds the values of that call,
\* whether the post was recorded before or not; a call that finds the row of
\* (postID, k) leaves the table as it is, and no call touches another row.
C19_MarkIsUpsert ==
    /\ [](\A a \in posts, b \in posts : a.post_id = b.post_id => a = b)
    /\ [](\A p \in posts : p.had_media <=> p.media_count > 0)
    /\ [](marked # NoMark
          => /\ marked.err = "none"
             /\ { p \in posts : p.post_id = marked.post_id }
                  = {MarkRow(marked.post_id, marked.media_count)})
    /\ [][ /\ { p \in posts' : p.post_id # marked'.post_id }
               = { p \in posts : p.post_id # marked'.post_id }
           /\ MarkRow(marked'.post_id, marked'.media_count) \in posts => posts' = posts
         ]_vars

\* C19 witness: every post is recorded once, one without media and one with
\* the largest count, which the last call wrote
C19_Witness ==
    /\ Cardinality(posts) = MaxPost
    /\ marked = [post_id |-> MaxPost, media_count |-> MaxRecount, err |-> "none"]
    /\ \A id \in PostIds : \E p \in posts : p.post_id = id
    /\ MarkRow(1, 0) \in posts
    /\ MarkRow(MaxPost, MaxRecount) \in posts

\* ------------------------------------------------------ configuration

\* A configuration file is loaded once at start-up; the configuration held
\* then gets its defaults and is validated again whenever it is saved
InitCfg ==
    /\ InitStore("none") /\ InitDL /\ InitTracker /\ IdleScrape
    /\ InitTags(FALSE) /\ InitApp
NextConfig == LoadStep \/ SetDefaultsStep \/ ValidateStep
SpecConfig == InitCfg /\ [][NextConfig]_vars

\* The defaults were applied to the configuration held
Defaulted == configRes.stage = "defaults"

\* C21 as stated: after SetDefaults with pagination disabled MaxPostsPerRun
\* is 50 whatever was configured, and with pagination enabled a non-zero
\* configured value is left unchanged.
C21_AlwaysFifty ==
    Defaulted =>
        /\ ~configured.enable_pagination => cfg.max_posts_per_run = 50
        /\ configured.enable_pagination /\ configured.max_posts_per_run # 0
              => cfg.max_posts_per_run = configured.max_posts_per_run

\* C21 amended: after SetDefaults a configured 0 has become 50; with
\* pagination disabled a configured value above 50 has become 50 and a
\* non-zero value of 50 or less, a negative one included, is left unchanged,
\* so the value never exceeds 50; with pagination enabled a non-zero
\* configured value is left unchanged.
C21_ClampAboveFifty ==
    Defaulted =>
        LET n == configured.max_posts_per_run
            v == cfg.max_posts_per_run
        IN  /\ n = 0 => v = 50
            /\ ~configured.enable_pagination /\ n > 50 => v = 50
            /\ ~configured.enable_pagination /\ n # 0 /\ n <= 50 => v = n
            /\ ~configured.enable_pagination => v <= 50
            /\ configured.enable_pagination /\ n # 0 => v = n

\* C21 witness: a configured 100 with pagination disabled was clamped to 50
C21_Witness ==
    /\ Defaulted
    /\ ~configured.enable_pagination
    /\ configured.max_posts_per_run = 100
    /\ cfg.max_posts_per_run = 50

\* The closed set of sort orders
SortTypes == {"Hot", "New", "TopDay", "TopWeek", "TopMonth", "TopYear", "TopAll", "Active"}

\* C22 as stated: after SetDefaults sort_type is in the closed set for
\* every configured string, and normalizing again changes nothing.
C22_SortAlwaysClosed ==
    Defaulted =>
        /\ cfg.sort_type \in SortTypes
        /\ SetDefaults(cfg) = cfg

\* The lower-case or canonical spelling of a sort order
KnownSpelling(st) ==
    st \in SortTypes \cup {"hot", "new", "topday", "topweek", "topmonth", "topyear",
                           "topall", "active"}

\* C22 amended: after SetDefaults an empty sort_type has become Hot, a
\* lower-case or canonical spelling of a sort order has become its canonical
\* form in the closed set, any other string (another letter case, an unknown
\* word) is left as configured, and applying the defaults again changes
\* nothing.
C22_KnownSpellingsClosed ==
    Defaulted =>
        /\ configured.sort_type = "" => cfg.sort_type = "Hot"
        /\ KnownSpelling(configured.sort_type) => cfg.sort_type \in SortTypes
        /\ configured.sort_type = "topday" => cfg.sort_type = "TopDay"
        /\ configured.sort_type \in SortTypes => cfg.sort_type = configured.sort_type
        /\ configured.sort_type # "" /\ ~KnownSpelling(configured.sort_type)
              => cfg.sort_type = configured.sort_type
        /\ SetDefaults(cfg) = cfg

\* C22 witness: a lower-case spelling was normalized to its canonical form
C22_Witness ==
    /\ Defaulted
    /\ configured.sort_type = "topday"
    /\ cfg.sort_type = "TopDay"

\* Some required string of the file is empty
MissingRequired(c) ==
    \/ c.instance = "" \/ c.username = "" \/ c.password = ""
    \/ c.base_directory = "" \/ c.database_path = ""

\* C23: loading a file fails exactly when a required string is empty, or
\* the mode is neither once nor continuous, or it is continuous with a zero
\* interval; the error names the first failing check in that order; a
\* configuration is returned only when the file as read is accepted, and it
\* is the file as read, without defaults; validating a held configuration
\* leaves it as it is.
C23_ValidateFirstFailure ==
    /\ [](configRes.stage \in {"loaded", "failed"} =>
          LET c == configured
              e == configRes.err
          IN  /\ e # "nil" <=> \/ MissingRequired(c)
                               \/ c.mode \notin {"once", "continuous"}
                               \/ c.mode = "continuous" /\ c.interval = 0
              /\ e = "lemmy.instance is required" <=> c.instance = ""
              /\ e = "lemmy.username is required"
                    <=> c.instance # "" /\ c.username = ""
              /\ e = "lemmy.password is required"
                    <=> c.instance # "" /\ c.username # "" /\ c.password = ""
              /\ e = "storage.base_directory is required"
                    <=> /\ c.instance # "" /\ c.username # "" /\ c.password # ""
                        /\ c.base_directory = ""
              /\ e = "database.path is required"
                    <=> /\ c.instance # "" /\ c.username # "" /\ c.password # ""
                        /\ c.base_directory # "" /\ c.database_path = ""
              /\ e = "run_mode.mode must be 'once' or 'continuous'"
                    <=> ~MissingRequired(c) /\ c.mode \notin {"once", "continuous"}
              /\ e = "run_mode.interval is required for continuous mode"
                    <=> ~MissingRequired(c) /\ c.mode = "continuous" /\ c.interval = 0
              /\ configRes.stage = "loaded" <=> e = "nil"
              /\ cfg = IF e = "nil" THEN configured ELSE NoConfig)
    /\ [][configRes'.stage = "validated" => cfg' = cfg]_vars

\* C23 witness: a file with every required string, continuous mode and no
\* interval was refused with the interval error and no configuration
C23_Witness ==
    /\ configRes = [stage |-> "failed",
                    err |-> "run_mode.interval is required for continuous mode"]
    /\ ~MissingRequired(configured)
    /\ configured.mode = "continuous"
    /\ configured.interval = 0
    /\ cfg = NoConfig

\* ------------------------------------------------------ media file handler

NextWeb == ServeStep \/ SymlinkStep
SpecWeb == InitCfg /\ [][NextWeb]_vars

\* The path is the directory or lies below it
InsideDir(path, dir) == path = dir \/ HasPrefix(path, dir \o <<"/">>)

\* C24: the media file handler answers with a file only when the file's
\* symlink-resolved path lies inside the storage base directory, for every
\* request path and every configured base directory; a file of a sibling
\* directory whose name starts with the base directory's name is not served.
C24_ServedInsideBase ==
    served.code = 200 => InsideDir(served.file, BaseDir)

\* ------------------------------------------------------ per-post order

BeginStep ==
    \E postID \in PostIds, candidates \in CandidateLists, includeVideos \in BOOLEAN :
        BeginPost(postID, candidates, includeVideos)
\* What the media host answers for a URL: each URL has its own bytes
HostedContent(url) ==
    CHOOSE c \in OkContents : c.body = IF url = UrlA THEN 1 ELSE MaxBody
CandidateStep ==
    /\ current.todo # <<>>
    /\ \E contentType \in ContentTypes, fault \in {"none", "net"} :
        TryCandidate(HostedContent(Head(current.todo).url), contentType, fault)
FetchStep == \E ok \in BOOLEAN : FetchComments(ok)

NextPost ==
    \/ BeginStep \/ SkipCandidate \/ CandidateStep \/ FetchStep \/ SkipComments
    \/ StoreComment \/ MarkPost
\* The catalog is empty, or holds the comments of the first post from a run
\* that stopped before it recorded the post
InitPost ==
    /\ InitStore("none") /\ InitDL /\ InitTracker /\ IdleScrape
    /\ InitTags(FALSE) /\ InitConfig /\ InitWeb /\ InitRace
    /\ current = NoCurrent
    /\ postLog = <<>>
    /\ comments \in {{}, {[comment_id |-> 1, post_id |-> 1]}}
SpecPost == InitPost /\ [][NextPost]_vars

\* The operations of the kinds in ops in the log of the current post
LogOps(ops) == { i \in DOMAIN postLog : postLog[i].op \in ops }

\* C25: for every post, every media row is persisted before its comments
\* are fetched or stored, and mark-post-scraped comes after all of its media
\* rows and after its comment storage, as the last catalog write for the
\* post, with the final media count.
C25_MediaThenCommentsThenMark ==
    /\ [](\A i \in LogOps({"media"}), j \in LogOps({"fetch", "comment", "mark"}) : i < j)
    /\ [](\A i \in LogOps({"fetch", "comment"}), j \in LogOps({"mark"}) : i < j)
    /\ [](LogOps({"fetch", "comment", "mark"}) # {} => current.todo = <<>>)
    /\ [](\A i \in LogOps({"mark"}) :
            /\ i = Len(postLog)
            /\ postLog[i].n = Cardinality(LogOps({"media"}))
            /\ current.phase = "idle"
            /\ marked = [post_id |-> current.id, media_count |-> postLog[i].n,
                         err |-> "none"]
            /\ MarkRow(current.id, postLog[i].n) \in posts)
    /\ [][ /\ media' # media
              => current.phase = "media" /\ LogOps({"fetch", "comment", "mark"}) = {}
           /\ comments' # comments
              => current.todo = <<>> /\ LogOps({"mark"}) = {} /\ posts' = posts
           /\ marked' # marked => current.tree = <<>> /\ current.todo = <<>>
         ]_vars

\* C25 witness: two media were saved, then the comments were fetched and one
\* stored, then the post was marked with the count 2
C25_Witness ==
    /\ Len(postLog) = 5
    /\ postLog[1].op = "media" /\ postLog[2].op = "media"
    /\ postLog[3].op = "fetch" /\ postLog[4].op = "comment"
    /\ postLog[5] = [op |-> "mark", n |-> 2]
    /\ Cardinality({ m \in media : m.post_id = current.id }) = 2
    /\ \E c \in comments : c.post_id = current.id

\* ------------------------------------------------------ full fan-out channel

\* The scrape loop and the dispatch loop with no listener connected: the
\* mutators fill the channel, Tracker.run empties it and recomputes the ETA
DrainStep == RunBroadcast \/ RunBroadcastDone \/ RunTick
NextChannel == MutatorStep \/ broadcastStatus \/ DrainStep
SpecChannel == Init /\ [][NextChannel]_vars

\* The tracker with listeners that connect and stay: no peer stalls or goes
\* away, so no listener is unregistered
ListenStep ==
    \/ \E c \in ClientIds : RunRegister(c) \/ RunRegisterSend(c) \/ RunBroadcastSend(c)
    \/ RunBroadcast \/ RunBroadcastDone \/ sendToClientReturns \/ RunTick
ConnectStep == \E c \in ClientIds : Connect(c)
NextFanout == MutatorStep \/ broadcastStatus \/ ListenStep \/ ConnectStep
SpecFanout == Init /\ [][NextFanout]_vars

\* The same with the scheduling of the Go runtime: Tracker.run and a
\* mutator on its way to broadcastStatus take their steps
FairSpecFanout == SpecFanout /\ WF_vars(ListenStep) /\ WF_vars(broadcastStatus)

\* broadcastStatus returns in this step
Publishes == loopPc = "publish" /\ loopPc' = "idle"

Stopped ==
    /\ loopPc = "idle"
    /\ ~status.is_running
    /\ status.current_operation = <<"Completed">>

\* The listener has received the snapshot of the ended run: the newest
\* snapshot it got with is_running = false is of this run and has its counters
HasFinal(c) ==
    /\ conn[c].final # NoStatus
    /\ conn[c].final.started_at = status.started_at
    /\ conn[c].final.posts_processed = status.posts_processed
    /\ conn[c].final.media_downloaded = status.media_downloaded
    /\ conn[c].final.errors_count = status.errors_count

\* C29: after Stop at the end of a run, every listener that stays
\* registered eventually receives a snapshot with is_running = false and the
\* final counters of the run, also when the channel was full when Stop was
\* called.
C29_StopReachesListeners ==
    \A c \in ClientIds :
        (Stopped /\ c \in clients) ~> (HasFinal(c) \/ c \notin clients \/ ~Stopped)

\* ------------------------------------------------------ full-text index

\* The store is opened again and again, with full-text support or without;
\* rows are inserted, and updated and deleted by statements on scraped_media
FtsRows ==
    { r \in StoreRows :
        /\ r.media_url = UrlA
        /\ \E c \in OkContents : /\ c.body = ((r.post_id - 1) % MaxBody) + 1
                                 /\ r.media_hash = HashContent(c) }
InsertStep == \E row \in FtsRows : SaveMedia(row, FALSE)
UpdateStep == \E m \in media : UpdateMedia(m.id, "moved")
\* Rows are deleted while the sequence of scraped_media is at most MaxPost
DeleteStep == mediaSeq <= MaxPost /\ \E m \in media : DeleteMedia(m.id)
NextFts == NewStep \/ InsertStep \/ UpdateStep \/ DeleteStep
SpecFts == InitSearch /\ [][NextFts]_vars

SuffixKind(name) == determineMediaType(<<>>, name)

\* C28: when the URL of a stored media has a recognised suffix, that suffix
\* decides the stored media kind and the extension of the file, whatever the
\* Content-Type of the response says; the stored kind and the kind of the
\* file's extension never disagree.
C28_SuffixDecidesKind ==
    \A m \in media :
        /\ SuffixKind(m.media_url) # "other"
           => /\ m.media_type = SuffixKind(m.media_url)
              /\ HasSuffix(m.file_name, Ext(m.media_url))
        /\ SuffixKind(m.file_name) \in {"other", m.media_type}

\* ------------------------------------------------------ concurrent get-or-create

RaceBeginStep ==
    \E name \in TagInputs :
        \/ RaceBegin("web", "user", name)
        \/ \E op \in {"user", "auto"} : RaceBegin("other", op, name)
RaceStep ==
    \E g \in Goroutines : RaceLookup(g) \/ RaceCreate(g) \/ RaceAssign(g)
NextRace == RaceBeginStep \/ RaceStep
SpecRace == InitTagged /\ [][NextRace]_vars

\* C30: two get-or-create operations for the same normalized name that run
\* at the same time both succeed and refer to the same single tag; neither
\* fails with a uniqueness error, and the auto-tagger leaves the media with
\* that tag.
C30_ConcurrentGetOrCreate ==
    \A g \in Goroutines, h \in Goroutines :
        (racers[g].pc = "done" /\ racers[h].pc = "done" /\ racers[g].name = racers[h].name)
        => /\ racers[g].err = "none"
           /\ racers[g].id = racers[h].id
           /\ \E t \in tags : t.id = racers[g].id /\ t.name = racers[g].name
           /\ racers[g].op = "auto"
              => [media_id |-> 1, tag_id |-> racers[g].id] \in assignments
====
